---- MODULE Spec2Model ----
(***************************************************************************)
(* The API gateway of intelligence-service-backend: the rate-limiting      *)
(* middleware (api-gateway/app/core/middleware.py), the rate limiter with  *)
(* its two backends (api-gateway/app/utils/rate_limiting.py) and the       *)
(* proxy router (api-gateway/app/api/router.py).                           *)
(*                                                                         *)
(* Strings are sequences of chunks.  A path or URL is the sequence of its  *)
(* chunks ("/", "auth", "ping", ...); the chunk alphabet is prefix-free,   *)
(* so str.startswith is the prefix relation on sequences.  A rate-limit    *)
(* client id or store key is the sequence of its ":"-separated fields, so  *)
(* key.split(":") is the sequence itself.                                  *)
(* Clock values (time.time()) are ticks of 1/TicksPerSec second.           *)
(***************************************************************************)
EXTENDS Integers, Sequences, FiniteSets, TLC

\* ------------------------------------------------------------- bounds
TicksPerSec == 2        \* clock resolution: ticks per second
Horizon     == 4        \* ticks the clock may advance during a run
MaxReq      == 3        \* requests received during a run

\* ------------------------------------------------- program constants
CLEAN_EVERY   == 60     \* rate_limiting.py: "if now % 60 < 1"
STALE_AFTER   == 60     \* router.py: "current_time - last_checked > 60"

None  == "None"         \* Python's None, for a string-valued setting
Empty == <<>>           \* an absent or empty string, list or dict
NoInt == 0 - 1           \* an integer not set yet

Max(a, b) == IF a >= b THEN a ELSE b
MinOf(S)  == CHOOSE x \in S : \A y \in S : x <= y
MaxOf(S)  == CHOOSE x \in S : \A y \in S : x >= y
Range(s)  == {s[i] : i \in 1..Len(s)}

\* ------------------------------------------------------------- time
Secs(s) == s * TicksPerSec          \* a number of seconds, in ticks
int(t)  == t \div TicksPerSec       \* int(<float seconds>): whole seconds
\* The clock when the run starts: an epoch time far above STALE_AFTER, two
\* ticks before a whole minute.
StartTime == Secs(2 * CLEAN_EVERY) - 2
MaxTime   == StartTime + Horizon

\* ------------------------------------------------------------ strings
startswith(s, p) == Len(p) <= Len(s) /\ SubSeq(s, 1, Len(p)) = p
Mentions(body, s) ==
    \E i \in 0..(Len(body) - Len(s)) : SubSeq(body, i + 1, i + Len(s)) = s

\* ======================================================================
\* RateLimiter, in-memory backend.  memory_store is a Python dict, kept
\* here as the sequence of its items in insertion order.
\* ======================================================================
HasKey(store, key) == \E i \in 1..Len(store) : store[i].key = key
Get(store, key) ==
    store[CHOOSE i \in 1..Len(store) : store[i].key = key].ts
Put(store, key, ts) ==
    IF HasKey(store, key)
    THEN [i \in 1..Len(store) |->
              IF store[i].key = key THEN [key |-> key, ts |-> ts] ELSE store[i]]
    ELSE Append(store, [key |-> key, ts |-> ts])
StoredFor(store, key) == IF HasKey(store, key) THEN Get(store, key) ELSE <<>>

\* str(n) and int(s) of the period, a small positive integer.
Digits == <<"1", "2", "3", "4", "5">>
str(n) == Digits[n]
parse_int(s) == CHOOSE n \in 1..Len(Digits) : Digits[n] = s

\* f"{client_id}:{period}"
MemoryKey(client_id, period) == client_id \o <<str(period)>>

\* _clean_memory_store: "_, period = key.split(':')" raises ValueError on the
\* first key that does not have exactly two fields; the keys before it have
\* been trimmed by then and nothing has been deleted.
_clean_memory_store(store, t) ==
    LET bad  == {i \in 1..Len(store) : Len(store[i].key) # 2}
        stop == IF bad = {} THEN Len(store) + 1 ELSE MinOf(bad)
        trimmed == [i \in 1..Len(store) |->
            IF i < stop
            THEN [key |-> store[i].key,
                  ts  |-> SelectSeq(store[i].ts,
                              LAMBDA x : x > t - Secs(parse_int(store[i].key[2])))]
            ELSE store[i]]
    IN  IF bad # {}
        THEN [store |-> trimmed, raised |-> TRUE]
        ELSE [store |-> SelectSeq(trimmed, LAMBDA e : e.ts # <<>>),
              raised |-> FALSE]

\* Whether an allowed call is recorded (line 146-147).
RecordsWhenAllowed(allowed) == allowed

\* A comparison that admits a call when the window is already full.
MemoryAllowsAtLimit(request_count, limit) == request_count <= limit

\* The comparison that decides an in-memory call (line 143).
MemoryAllows(request_count, limit) == request_count < limit

_check_memory(store, client_id, limit, period, t) ==
    LET key    == MemoryKey(client_id, period)
        s0     == IF HasKey(store, key) THEN store ELSE Put(store, key, <<>>)
        cutoff == t - Secs(period)
        kept   == SelectSeq(Get(s0, key), LAMBDA x : x > cutoff)
        request_count == Len(kept)
        allowed == MemoryAllows(request_count, limit)
        stored == IF RecordsWhenAllowed(allowed) THEN Append(kept, t) ELSE kept
        s1     == Put(s0, key, stored)
        remaining == Max(0, limit - Len(stored))
        oldest == IF stored # <<>> THEN MinOf(Range(stored)) ELSE t
        reset_time == IF remaining > 0 THEN int(t) + period
                      ELSE int(oldest + Secs(period))
        clean  == (t % Secs(CLEAN_EVERY)) < Secs(1)
        c      == _clean_memory_store(s1, t)
    IN  [store      |-> IF clean THEN c.store ELSE s1,
         raised     |-> clean /\ c.raised,
         allowed    |-> allowed,
         remaining  |-> remaining,
         reset_time |-> reset_time]

\* ======================================================================
\* RateLimiter, Redis backend.  A sorted set holds members str(now) with
\* score now: one member per distinct clock value, so it is a set of clock
\* values.  The store maps each existing key to its non-empty sorted set.
\* ======================================================================
\* f"rate_limit:{client_id}:{period}"
RedisKey(client_id, period) ==
    <<"rate_limit">> \o client_id \o <<str(period)>>

\* The key as a command finds it: EXPIRE key period was set by the last
\* pipeline, which also added the then current clock value.
ZSet(rstore, key, t, period) ==
    IF key \notin DOMAIN rstore THEN {}
    ELSE IF t >= MaxOf(rstore[key]) + Secs(period) THEN {}
    ELSE rstore[key]

SetKey(rstore, key, z) ==
    IF z = {} THEN [k \in (DOMAIN rstore) \ {key} |-> rstore[k]]
    ELSE [k \in (DOMAIN rstore) \cup {key} |-> IF k = key THEN z ELSE rstore[k]]

\* The comparison that decides a Redis call (line 98).
RedisAllows(request_count, limit) == request_count <= limit

\* zremrangebyscore(key, 0, cutoff); zadd(key, {str(now): now}); zcard(key);
\* expire(key, period), executed as one transaction.
RedisPipeline(rstore, client_id, limit, period, t) ==
    LET key    == RedisKey(client_id, period)
        cutoff == t - Secs(period)
        z0     == ZSet(rstore, key, t, period)
        z1     == {x \in z0 : ~(0 <= x /\ x <= cutoff)}
        z2     == z1 \cup {t}
        request_count == Cardinality(z2)
        allowed == RedisAllows(request_count, limit)
        remaining == Max(0, limit - request_count)
    IN  [store     |-> SetKey(rstore, key, z2),
         allowed   |-> allowed,
         remaining |-> remaining]

\* zrange(key, 0, 0, withscores=True) and the reset time computed from it.
RedisResetTime(rstore, client_id, period, t_call, t_now) ==
    LET z == ZSet(rstore, RedisKey(client_id, period), t_now, period)
    IN  IF z # {} THEN int(MinOf(z)) + period ELSE int(t_call) + period

\* A limiter that fails closed.
FailClosed(limit, period, t_now) ==
    [allowed |-> FALSE, remaining |-> 0, reset_time |-> int(t_now) + period]

\* The except branch of _check_redis: fail open.
FailOpen(limit, period, t_now) ==
    [allowed |-> TRUE, remaining |-> limit, reset_time |-> int(t_now) + period]

\* RateLimiter.check: "limit = limit or self.default_limit".
Or(x, default) == IF x = NoInt \/ x = 0 THEN default ELSE x

\* ======================================================================
\* State
\* ======================================================================
VARIABLES
    settings,        \* app.core.config.settings, read-only after start
    now,             \* time.time(), in ticks
    memory_store,    \* RateLimiter.memory_store
    redis_store,     \* the sorted sets of the Redis server
    service_health,  \* router.service_health: prefix -> status entry
    probes,          \* check_service_health calls that have not completed
    req,             \* the requests received so far, in order of arrival
    inbound,         \* Header Transform: the request given to preserve_headers
    outbound         \* Header Transform: the headers it returned

vars == <<settings, now, memory_store, redis_store, service_health, probes,
          req, inbound, outbound>>

\* ---------------------------------------------------------- requests
\* RateLimitingMiddleware._get_client_id: the Authorization header when it
\* starts with "Bearer ", else the remote address, else "unknown".
BearerValues == {"Bearer t1", "Bearer t2"}
_get_client_id(auth, host) ==
    IF auth # Empty /\ auth[1] \in BearerValues THEN auth
    ELSE IF host # Empty THEN host
    ELSE <<"unknown">>

\* A request as it arrives.  pc is the await the request is suspended at:
\*   "zrange"  in _check_redis, before redis_client.zrange
\*   "router"  in dispatch, call_next(request) not yet at proxy_request
\*   "backend" in proxy_request, before client.request returns
\*   "gather"  in service_health_check, before asyncio.gather returns
\*   "done"    the response has left the gateway
\* consulted: get_service_url has looked the path up in SERVICE_ROUTES;
\* prefix, target_url, out_headers: the matched route, the URL and the headers
\* of the outbound call; spawned: a background health probe was created;
\* forwarded: client.request was called; results: what asyncio.gather has
\* collected so far; aggregate: the "services" object of /services/health.
\* method: the HTTP method, "GET" unless the router was given another.
\* checked says that RateLimiter.check has returned; allowed, remaining and
\* reset_time are then the tuple it returned, t_call the clock value it read,
\* before/after the timestamps the store held for the client before and
\* after the call, failed_open whether the except branch answered (at
\* clock value t_fail).
\* xrl says that the response carries X-RateLimit-Remaining and
\* X-RateLimit-Reset, with the values xrl_remaining and xrl_reset.
NewRequest(auth, host, path) ==
    [auth |-> auth, host |-> host, path |-> path, pc |-> "received",
     client_id |-> _get_client_id(auth, host), t_call |-> NoInt,
     checked |-> FALSE, allowed |-> FALSE, remaining |-> NoInt,
     reset_time |-> NoInt, before |-> Empty, after |-> Empty,
     failed_open |-> FALSE, t_fail |-> NoInt,
     status |-> 0, body |-> Empty, ctype |-> None, origin |-> None,
     xrl |-> FALSE, xrl_remaining |-> NoInt, xrl_reset |-> NoInt,
     consulted |-> FALSE, prefix |-> Empty, target_url |-> Empty,
     out_headers |-> Empty, spawned |-> FALSE, forwarded |-> FALSE,
     results |-> Empty, aggregate |-> Empty, exc |-> None, method |-> "GET"]

Respond(r, status, body, ctype, origin) ==
    [r EXCEPT !.pc = "done", !.status = status, !.body = body,
              !.ctype = ctype, !.origin = origin]

\* main.global_exception_handler: an exception that leaves the middleware
\* stack is answered by a JSON 500.
global_exception_handler(r, exc) ==
    [Respond(r, 500, <<"{\"detail\": \"Une erreur interne est survenue.\"}">>,
             "application/json", "exception_handler") EXCEPT !.exc = exc]

\* A dispatch that resolves the route before it looks at the limiter's
\* answer.
ResolveThenCheck(r) ==
    IF ~r.allowed
    THEN [Respond(r, 429, <<"Rate limit exceeded. Please try again later.">>,
                  "text/plain", "rate_limiter")
            EXCEPT !.xrl = TRUE, !.xrl_remaining = r.remaining,
                   !.xrl_reset = r.reset_time, !.consulted = TRUE]
    ELSE [r EXCEPT !.pc = "router"]

\* RateLimitingMiddleware.dispatch after check returned: a 429 with the two
\* rate-limit headers, or call_next.
AfterCheck(r) ==
    IF ~r.allowed
    THEN [Respond(r, 429, <<"Rate limit exceeded. Please try again later.">>,
                  "text/plain", "rate_limiter")
            EXCEPT !.xrl = TRUE, !.xrl_remaining = r.remaining,
                   !.xrl_reset = r.reset_time]
    ELSE [r EXCEPT !.pc = "router"]

UsesRedis == settings.RATE_LIMIT_REDIS_URL # None
Limit  == Or(NoInt, settings.DEFAULT_RATE_LIMIT)
Period == Or(NoInt, settings.DEFAULT_RATE_LIMIT_PERIOD)

\* A dispatch that calls the limiter although the toggle is off.
DispatchIgnoringToggle(r) ==
    /\ ~settings.ENABLE_RATE_LIMITING
    /\ LET res == _check_memory(memory_store, r.client_id, Limit, Period, now)
       IN  /\ memory_store' = res.store
           /\ req' = Append(req,
                 AfterCheck([r EXCEPT !.t_call = now,
                                      !.checked = TRUE,
                                      !.allowed = res.allowed,
                                      !.remaining = res.remaining,
                                      !.reset_time = res.reset_time]))
    /\ UNCHANGED redis_store

\* dispatch with the limiter switched off.
DispatchBypass(r) ==
    /\ ~settings.ENABLE_RATE_LIMITING
    /\ req' = Append(req, [r EXCEPT !.pc = "router"])
    /\ UNCHANGED <<memory_store, redis_store>>

\* dispatch, check on the in-memory backend (one synchronous call).
DispatchMemory(r) ==
    /\ settings.ENABLE_RATE_LIMITING /\ ~UsesRedis
    /\ LET res == _check_memory(memory_store, r.client_id, Limit, Period, now)
           key == MemoryKey(r.client_id, Period)
           r1  == [r EXCEPT !.t_call = now,
                            !.before = StoredFor(memory_store, key),
                            !.after = StoredFor(res.store, key)]
       IN  /\ memory_store' = res.store
           /\ req' = Append(req,
                 IF res.raised THEN global_exception_handler(r1, "ValueError")
                 ELSE AfterCheck([r1 EXCEPT !.checked = TRUE,
                                            !.allowed = res.allowed,
                                            !.remaining = res.remaining,
                                            !.reset_time = res.reset_time]))
    /\ UNCHANGED redis_store

StoredRedis(rstore, key) == IF key \in DOMAIN rstore THEN rstore[key] ELSE {}

\* dispatch, check on the Redis backend up to the pipeline's result.
DispatchRedis(r) ==
    /\ settings.ENABLE_RATE_LIMITING /\ UsesRedis
    /\ LET res == RedisPipeline(redis_store, r.client_id, Limit, Period, now)
           key == RedisKey(r.client_id, Period)
           r1  == [r EXCEPT !.t_call = now,
                            !.before = StoredRedis(redis_store, key),
                            !.after = StoredRedis(res.store, key),
                            !.allowed = res.allowed,
                            !.remaining = res.remaining]
       IN  /\ redis_store' = res.store
           /\ req' = Append(req,
                 IF res.remaining > 0
                 THEN AfterCheck([r1 EXCEPT !.checked = TRUE,
                                            !.reset_time = int(now) + Period])
                 ELSE [r1 EXCEPT !.pc = "zrange"])
    /\ UNCHANGED memory_store

\* dispatch, check on the Redis backend when pipe.execute() raises: the
\* transaction was applied by the server or it was not.
DispatchRedisError(r) ==
    /\ settings.ENABLE_RATE_LIMITING /\ UsesRedis
    /\ LET res == RedisPipeline(redis_store, r.client_id, Limit, Period, now)
           key == RedisKey(r.client_id, Period)
           fo  == FailOpen(Limit, Period, now)
       IN  \E applied \in BOOLEAN :
           LET after == IF applied THEN res.store ELSE redis_store
               r1 == [r EXCEPT !.t_call = now, !.checked = TRUE,
                               !.failed_open = TRUE, !.t_fail = now,
                               !.before = StoredRedis(redis_store, key),
                               !.after = StoredRedis(after, key),
                               !.allowed = fo.allowed,
                               !.remaining = fo.remaining,
                               !.reset_time = fo.reset_time]
           IN  /\ redis_store' = after
               /\ req' = Append(req, AfterCheck(r1))
    /\ UNCHANGED memory_store

\* A request arrives and RateLimitingMiddleware.dispatch runs to its first
\* await.  The requests are drawn from auths, hosts and paths, at most cap
\* of them; with faults, operations on the Redis store may raise.
Receive(auths, hosts, paths, cap, faults) ==
    /\ Len(req) < cap
    /\ \E a \in auths, h \in hosts, p \in paths :
           LET r == NewRequest(a, h, p)
           IN  \/ DispatchBypass(r)
               \/ DispatchMemory(r)
               \/ DispatchRedis(r)
               \/ faults /\ DispatchRedisError(r)
    /\ UNCHANGED <<settings, now, service_health, probes, inbound, outbound>>

\* _check_redis resumes after the pipeline: zrange answers, or raises.
Zrange(faults) ==
    \E i \in 1..Len(req) :
        /\ req[i].pc = "zrange"
        /\ LET r   == req[i]
               fo  == FailOpen(Limit, Period, now)
               rst == RedisResetTime(redis_store, r.client_id, Period,
                                     r.t_call, now)
           IN  \/ req' = [req EXCEPT ![i] =
                     AfterCheck([r EXCEPT !.checked = TRUE,
                                          !.reset_time = rst])]
               \/ faults /\ req' = [req EXCEPT ![i] =
                     AfterCheck([r EXCEPT !.checked = TRUE,
                                          !.failed_open = TRUE,
                                          !.t_fail = now,
                                          !.allowed = fo.allowed,
                                          !.remaining = fo.remaining,
                                          !.reset_time = fo.reset_time])]
        /\ UNCHANGED <<settings, now, memory_store, redis_store,
                       service_health, probes, inbound, outbound>>

\* The clock advances.
Tick(t_max) ==
    /\ now < t_max
    /\ now' = now + 1
    /\ UNCHANGED <<settings, memory_store, redis_store, service_health,
                   probes, req, inbound, outbound>>

\* ---------------------------------------------------------- settings
\* Settings.create_service_routes: the route table in configuration order.
ServiceInfo(prefix, url) ==
    [prefix |-> prefix, url |-> url, health |-> <<"/", "health">>]
DefaultRoutes ==
    << ServiceInfo(<<"/", "auth">>,    <<"http://auth-service:8000">>),
       ServiceInfo(<<"/", "reports">>, <<"http://reports-service:8001">>) >>

Limits  == {1, 2}
Periods == {1, 2}

MakeSettings(enable, redis_url, limit, period, routes) ==
    [ENABLE_RATE_LIMITING |-> enable, RATE_LIMIT_REDIS_URL |-> redis_url,
     DEFAULT_RATE_LIMIT |-> limit, DEFAULT_RATE_LIMIT_PERIOD |-> period,
     PROXY_SECRET_KEY |-> <<"dev_secret_key">>, SERVICE_ROUTES |-> routes]

InitState ==
    /\ now = StartTime
    /\ memory_store = <<>>
    /\ redis_store = <<>>
    /\ service_health = <<>>
    /\ probes = {}
    /\ req = <<>>
    /\ inbound = [headers |-> Empty, client_host |-> Empty]
    /\ outbound = [built |-> FALSE, headers |-> Empty]

\* ======================================================================
\* The rate limiter behind its middleware: requests of several clients at
\* non-decreasing times, every limit and period, both backends.
\* ======================================================================
IPv4 == <<"10.0.0.1">>
IPv6 == <<"", "", "1">>         \* "::1"
LimiterHosts == {IPv4, IPv6}
PingPath == <<"auth", "/", "ping">>

RedisUrls == {None, "redis://redis:6379/0"}

InitLimiter ==
    /\ InitState
    /\ \E url \in RedisUrls, l \in Limits, p \in Periods :
           settings = MakeSettings(TRUE, url, l, p, DefaultRoutes)

NextLimiter ==
    \/ Tick(MaxTime)
    \/ Receive({Empty}, LimiterHosts, {PingPath}, MaxReq, FALSE)
    \/ Zrange(FALSE)

SpecLimiter == InitLimiter /\ [][NextLimiter]_vars

\* The limiter with several identities: a bearer credential, an
\* Authorization header of another scheme, and remote addresses.
IdentityAuths == {Empty, <<"Bearer t1">>, <<"Basic dXNlcg==">>}

InitIdentity ==
    /\ InitState
    /\ \E url \in RedisUrls, l \in Limits :
           settings = MakeSettings(TRUE, url, l, 1, DefaultRoutes)

NextIdentity ==
    \/ Tick(MaxTime)
    \/ Receive(IdentityAuths, LimiterHosts, {PingPath}, MaxReq, FALSE)
    \/ Zrange(FALSE)

SpecIdentity == InitIdentity /\ [][NextIdentity]_vars

\* The Redis backend with a store whose operations may raise.
InitFailOpen ==
    /\ InitState
    /\ \E l \in Limits, p \in Periods :
           settings = MakeSettings(TRUE, "redis://redis:6379/0", l, p,
                                   DefaultRoutes)

NextFailOpen ==
    \/ Tick(MaxTime)
    \/ Receive({Empty}, {IPv4}, {PingPath}, MaxReq, TRUE)
    \/ Zrange(TRUE)

SpecFailOpen == InitFailOpen /\ [][NextFailOpen]_vars

\* ======================================================================
\* The proxy router (api-gateway/app/api/router.py)
\* ======================================================================
\* An exception is [cls, msg].  Ancestors(cls) are the classes an "except"
\* clause matches it by: app.utils.errors for the gateway's own classes,
\* httpx's and Starlette's class hierarchies for the others.
TimeoutClasses == {"httpx.ConnectTimeout", "httpx.ReadTimeout"}
NetworkClasses == {"httpx.ConnectError", "httpx.ReadError"}
Ancestors(cls) ==
    IF cls = "ServiceUnavailableError" THEN {cls, "ProxyError", "Exception"}
    ELSE IF cls \in TimeoutClasses
    THEN {cls, "httpx.TimeoutException", "httpx.TransportError",
          "httpx.RequestError", "httpx.HTTPError", "Exception"}
    ELSE IF cls \in NetworkClasses
    THEN {cls, "httpx.NetworkError", "httpx.TransportError",
          "httpx.RequestError", "httpx.HTTPError", "Exception"}
    ELSE IF cls = "httpx.TooManyRedirects"
    THEN {cls, "httpx.RequestError", "httpx.HTTPError", "Exception"}
    ELSE {cls, "Exception"}

Exc(cls, msg) == [cls |-> cls, msg |-> msg]

\* The except clauses of proxy_request with the timeout clause after the
\* request-error clause.
ExceptClausesSwapped ==
    <<"ServiceUnavailableError", "httpx.RequestError",
      "httpx.TimeoutException", "Exception">>

\* The except clauses of proxy_request, in source order.
ExceptClauses ==
    <<"ServiceUnavailableError", "httpx.TimeoutException",
      "httpx.RequestError", "Exception">>

\* The clause that catches an exception: the first that matches.
Caught(exc) ==
    ExceptClauses[MinOf({k \in 1..Len(ExceptClauses) :
                             ExceptClauses[k] \in Ancestors(exc.cls)})]

\* The response each except clause of proxy_request returns.
ErrorResponse(r, exc) ==
    LET clause == Caught(exc)
        r1 == [r EXCEPT !.exc = exc.cls]
    IN  IF clause = "ServiceUnavailableError"
        THEN Respond(r1, 503, exc.msg, "text/plain", "proxy")
        ELSE IF clause = "httpx.TimeoutException"
        THEN Respond(r1, 504, <<"Service timeout. Please try again later.">>,
                     "text/plain", "proxy")
        ELSE IF clause = "httpx.RequestError"
        THEN Respond(r1, 502, <<"Unable to reach the service: ">> \o exc.msg,
                     "text/plain", "proxy")
        ELSE Respond(r1, 500,
                 <<"An internal error occurred while processing your request.">>,
                 "text/plain", "proxy")

\* "path if path.startswith('/') else '/' + path"
normalize(path) == IF startswith(path, <<"/">>) THEN path ELSE <<"/">> \o path

\* The routes, by position in SERVICE_ROUTES, whose prefix the path starts
\* with.
Matching(routes, path) ==
    {k \in 1..Len(routes) : startswith(normalize(path), routes[k].prefix)}

\* A resolution that lets the last matching route win.
LastMatch(hits) == MaxOf(hits)

\* The for loop of get_service_url returns at the first matching route.
FirstMatch(hits) == MinOf(hits)

\* service_health.get(prefix, {}) with the defaults get_service_url reads.
StatusOf(health, prefix) ==
    IF prefix \in DOMAIN health THEN health[prefix]
    ELSE [is_healthy |-> TRUE, last_checked |-> 0, error |-> None]

\* A resolution that spawns a probe only for a stale status, not for an
\* unhealthy one.
get_service_url_stale_only(path, routes, health, t) ==
    LET hits == Matching(routes, path)
    IN  IF hits = {}
        THEN [raised |-> TRUE,
              exc |-> Exc("HTTPException",
                          <<"No service configured for path: ">> \o path),
              url |-> Empty, prefix |-> Empty, spawn |-> FALSE]
        ELSE LET route  == routes[FirstMatch(hits)]
                 status == StatusOf(health, route.prefix)
             IN  IF route.url = Empty
                 THEN [raised |-> TRUE,
                       exc |-> Exc("ServiceUnavailableError",
                                   <<"Service configuration for ">>
                                       \o route.prefix \o <<" is missing">>),
                       url |-> Empty, prefix |-> route.prefix, spawn |-> FALSE]
                 ELSE [raised |-> FALSE, exc |-> Exc(None, Empty),
                       url |-> route.url, prefix |-> route.prefix,
                       spawn |-> t - status.last_checked > Secs(STALE_AFTER)]

\* A resolution that spawns a probe only for a prefix that was never
\* checked.
get_service_url_first_only(path, routes, health, t) ==
    LET hits == Matching(routes, path)
    IN  IF hits = {}
        THEN [raised |-> TRUE,
              exc |-> Exc("HTTPException",
                          <<"No service configured for path: ">> \o path),
              url |-> Empty, prefix |-> Empty, spawn |-> FALSE]
        ELSE LET route == routes[FirstMatch(hits)]
             IN  IF route.url = Empty
                 THEN [raised |-> TRUE,
                       exc |-> Exc("ServiceUnavailableError",
                                   <<"Service configuration for ">>
                                       \o route.prefix \o <<" is missing">>),
                       url |-> Empty, prefix |-> route.prefix, spawn |-> FALSE]
                 ELSE [raised |-> FALSE, exc |-> Exc(None, Empty),
                       url |-> route.url, prefix |-> route.prefix,
                       spawn |-> route.prefix \notin DOMAIN health]

\* A resolution that refuses a route whose cached status is unhealthy.
get_service_url_gated(path, routes, health, t) ==
    LET hits == Matching(routes, path)
    IN  IF hits = {}
        THEN [raised |-> TRUE,
              exc |-> Exc("HTTPException",
                          <<"No service configured for path: ">> \o path),
              url |-> Empty, prefix |-> Empty, spawn |-> FALSE]
        ELSE LET route  == routes[FirstMatch(hits)]
                 status == StatusOf(health, route.prefix)
                 spawn  == \/ t - status.last_checked > Secs(STALE_AFTER)
                           \/ ~status.is_healthy
             IN  IF route.url = Empty \/ ~status.is_healthy
                 THEN [raised |-> TRUE,
                       exc |-> Exc("ServiceUnavailableError",
                                   <<"Service configuration for ">>
                                       \o route.prefix \o <<" is missing">>),
                       url |-> Empty, prefix |-> route.prefix, spawn |-> FALSE]
                 ELSE [raised |-> FALSE, exc |-> Exc(None, Empty),
                       url |-> route.url, prefix |-> route.prefix,
                       spawn |-> spawn]

get_service_url(path, routes, health, t) ==
    LET hits == Matching(routes, path)
    IN  IF hits = {}
        THEN [raised |-> TRUE,
              exc |-> Exc("HTTPException",
                          <<"No service configured for path: ">> \o path),
              url |-> Empty, prefix |-> Empty, spawn |-> FALSE]
        ELSE LET route  == routes[FirstMatch(hits)]
                 status == StatusOf(health, route.prefix)
             IN  IF route.url = Empty
                 THEN [raised |-> TRUE,
                       exc |-> Exc("ServiceUnavailableError",
                                   <<"Service configuration for ">>
                                       \o route.prefix \o <<" is missing">>),
                       url |-> Empty, prefix |-> route.prefix, spawn |-> FALSE]
                 ELSE [raised |-> FALSE, exc |-> Exc(None, Empty),
                       url |-> route.url, prefix |-> route.prefix,
                       spawn |-> \/ t - status.last_checked > Secs(STALE_AFTER)
                                 \/ ~status.is_healthy]

\* ------------------------------------------------------ header transform
\* A header dict maps lower-case names to values; a value is a list of items.
Pop(h, name) == [k \in (DOMAIN h) \ {name} |-> h[k]]
SetItem(h, name, v) ==
    [k \in (DOMAIN h) \cup {name} |-> IF k = name THEN v ELSE h[k]]

\* A transform that forgets to drop "connection".
StrippedButConnection == {"host", "content-length"}

\* The headers preserve_headers pops.
Stripped == {"host", "connection", "content-length"}

preserve_headers(headers, client_host, secret) ==
    LET h1 == [k \in (DOMAIN headers) \ Stripped |-> headers[k]]
        client_ip == IF client_host # Empty THEN client_host ELSE <<"unknown">>
        h2 == IF "x-forwarded-for" \in DOMAIN h1
              THEN SetItem(h1, "x-forwarded-for",
                           h1["x-forwarded-for"] \o <<client_ip>>)
              ELSE SetItem(h1, "x-forwarded-for", <<client_ip>>)
    IN  SetItem(h2, "x-gateway-secret", <<secret>>)

\* The headers of a request received by the gateway.
HeadersOf(r) ==
    LET base == [k \in {"host", "connection"} |->
                    IF k = "host" THEN <<<<"gateway:8080">>>>
                    ELSE <<<<"keep-alive">>>>]
    IN  IF r.auth = Empty THEN base ELSE SetItem(base, "authorization", <<r.auth>>)

\* ------------------------------------------------------------- actions
Routes == settings.SERVICE_ROUTES

\* dispatch after call_next returned: the two rate-limit headers are set on
\* the response.
Finish(r) ==
    IF settings.ENABLE_RATE_LIMITING
    THEN [r EXCEPT !.xrl = TRUE, !.xrl_remaining = r.remaining,
                   !.xrl_reset = r.reset_time]
    ELSE r

\* An exact-path table that lacks "/routes".
InternalRoutesWithoutRoutes ==
    [p \in {<<"/", "health">>, <<"/", "services", "/", "health">>} |->
        IF p = <<"/", "health">> THEN "health_check"
        ELSE "service_health_check"]

\* INTERNAL_ROUTES and the handlers globals() finds for them.
INTERNAL_ROUTES ==
    [p \in {<<"/", "health">>, <<"/", "routes">>,
            <<"/", "services", "/", "health">>} |->
        IF p = <<"/", "health">> THEN "health_check"
        ELSE IF p = <<"/", "routes">> THEN "list_routes"
        ELSE "service_health_check"]
Globals == {"health_check", "list_routes", "service_health_check",
            "proxy_request", "get_service_url", "preserve_headers",
            "check_service_health"}

Probe(owner, prefix, kind) == [owner |-> owner, prefix |-> prefix, kind |-> kind]

\* One of the gateway's own handlers answers request i, whose record is r.
Serve(i, r, handler_name) ==
    IF handler_name \notin Globals
    THEN /\ req' = [req EXCEPT ![i] = Finish(Respond(r, 500,
                        <<"Internal server error">>, "text/plain", "proxy"))]
         /\ UNCHANGED probes
    ELSE IF handler_name = "service_health_check"
    THEN /\ req' = [req EXCEPT ![i] = [r EXCEPT !.pc = "gather"]]
         /\ probes' = probes \cup
                {Probe(i, Routes[k].prefix, "gather") : k \in 1..Len(Routes)}
    ELSE /\ req' = [req EXCEPT ![i] = Finish(Respond(r, 200,
                        <<handler_name>>, "application/json", "internal"))]
         /\ UNCHANGED probes

\* proxy_request for an internal route: the handler named in INTERNAL_ROUTES.
InternalRoute(i) ==
    Serve(i, req[i], INTERNAL_ROUTES[normalize(req[i].path)])

\* The try block of proxy_request for request i, whose record is r, up to
\* the outbound call.
Forward(i, r) ==
    LET res == get_service_url(r.path, Routes, service_health, now)
        r1  == [r EXCEPT !.consulted = TRUE, !.prefix = res.prefix]
    IN  IF res.raised
        THEN /\ req' = [req EXCEPT ![i] = Finish(ErrorResponse(r1, res.exc))]
             /\ UNCHANGED probes
        ELSE /\ req' = [req EXCEPT ![i] =
                    [r1 EXCEPT !.pc = "backend",
                               !.spawned = res.spawn,
                               !.target_url = res.url \o <<"/">> \o r.path,
                               !.out_headers = preserve_headers(HeadersOf(r),
                                   r.host, settings.PROXY_SECRET_KEY)]]
             /\ probes' = IF res.spawn
                          THEN probes \cup {Probe(i, res.prefix, "task")}
                          ELSE probes

\* proxy_request for any other path, up to the outbound call.
ProxyRoute(i) == Forward(i, req[i])

\* The routes the router declares with @router.get, in front of the
\* catch-all, and the methods the catch-all accepts.
GetRoutes ==
    [p \in {<<"/", "health">>, <<"/", "routes">>,
            <<"/", "services", "/", "health">>} |->
        IF p = <<"/", "health">> THEN "health_check"
        ELSE IF p = <<"/", "routes">> THEN "list_routes"
        ELSE "service_health_check"]
Methods == {"GET", "POST", "PUT", "DELETE", "PATCH", "HEAD", "OPTIONS"}

\* call_next reaches the router with a request of any of the methods: a GET
\* of a declared path goes to its handler, everything else to proxy_request.
RouterDispatch(methods) ==
    \E i \in 1..Len(req), m \in methods :
        /\ req[i].pc = "router"
        /\ LET r    == [req[i] EXCEPT !.method = m]
               full == normalize(r.path)
           IN  IF m = "GET" /\ full \in DOMAIN GetRoutes
               THEN Serve(i, r, GetRoutes[full])
               ELSE IF full \in DOMAIN INTERNAL_ROUTES
               THEN Serve(i, r, INTERNAL_ROUTES[full])
               ELSE Forward(i, r)
        /\ UNCHANGED <<settings, now, memory_store, redis_store,
                       service_health, inbound, outbound>>

\* call_next reaches proxy_request.
ProxyRequest ==
    \E i \in 1..Len(req) :
        /\ req[i].pc = "router"
        /\ IF normalize(req[i].path) \in DOMAIN INTERNAL_ROUTES
           THEN InternalRoute(i)
           ELSE ProxyRoute(i)
        /\ UNCHANGED <<settings, now, memory_store, redis_store,
                       service_health, inbound, outbound>>

\* What the backend may answer, and what the outbound call (or reading the
\* request body before it) may raise.
BackendExceptions ==
    TimeoutClasses \cup NetworkClasses
        \cup {"httpx.TooManyRedirects", "ClientDisconnect"}

\* The backend's response is relayed.
BackendResponds(statuses) ==
    \E i \in 1..Len(req), st \in statuses :
        /\ req[i].pc = "backend"
        /\ req' = [req EXCEPT ![i] =
               Finish(Respond([req[i] EXCEPT !.forwarded = TRUE], st,
                              <<"backend body">>, "backend", "backend"))]
        /\ UNCHANGED <<settings, now, memory_store, redis_store,
                       service_health, probes, inbound, outbound>>

\* The outbound call raises.
BackendFails(classes) ==
    \E i \in 1..Len(req), cls \in classes :
        /\ req[i].pc = "backend"
        /\ req' = [req EXCEPT ![i] =
               Finish(ErrorResponse(
                   [req[i] EXCEPT !.forwarded = (cls # "ClientDisconnect")],
                   Exc(cls, <<cls>>)))]
        /\ UNCHANGED <<settings, now, memory_store, redis_store,
                       service_health, probes, inbound, outbound>>

\* check_service_health once the GET has answered or raised.
ProbeOutcomes ==
    {[raised |-> FALSE, status_code |-> 200, msg |-> None],
     [raised |-> FALSE, status_code |-> 503, msg |-> None],
     [raised |-> TRUE,  status_code |-> 0,   msg |-> "timed out"]}

\* A probe that updates the fields of the entry it finds instead of
\* replacing the entry.
check_service_health_merging(routes, health, service_path, outcome, t) ==
    LET infos == {k \in 1..Len(routes) : routes[k].prefix = service_path}
        old   == IF service_path \in DOMAIN health THEN health[service_path]
                 ELSE [is_healthy |-> TRUE, last_checked |-> 0, error |-> None]
    IN  IF infos = {} \/ routes[MinOf(infos \cup {Len(routes)})].url = Empty
        THEN [health |-> health, result |-> FALSE]
        ELSE IF outcome.raised
        THEN [health |-> SetItem(health, service_path,
                  [is_healthy |-> FALSE, last_checked |-> t,
                   error |-> outcome.msg]),
              result |-> FALSE]
        ELSE [health |-> SetItem(health, service_path,
                  [old EXCEPT !.is_healthy = (outcome.status_code = 200),
                              !.last_checked = t]),
              result |-> outcome.status_code = 200]

check_service_health(routes, health, service_path, outcome, t) ==
    LET infos == {k \in 1..Len(routes) : routes[k].prefix = service_path}
    IN  IF infos = {} \/ routes[MinOf(infos \cup {Len(routes)})].url = Empty
        THEN [health |-> health, result |-> FALSE]
        ELSE IF outcome.raised
        THEN [health |-> SetItem(health, service_path,
                  [is_healthy |-> FALSE, last_checked |-> t,
                   error |-> outcome.msg]),
              result |-> FALSE]
        ELSE [health |-> SetItem(health, service_path,
                  [is_healthy |-> outcome.status_code = 200,
                   last_checked |-> t, error |-> None]),
              result |-> outcome.status_code = 200]

\* A probe whose exception is not caught and reaches the request that
\* spawned it.
ProbeDoneRaises ==
    \E p \in probes, outcome \in ProbeOutcomes :
        LET res == check_service_health(Routes, service_health, p.prefix,
                                        outcome, now)
        IN  /\ service_health' = res.health
            /\ probes' = probes \ {p}
            /\ req' = IF p.kind = "gather"
                      THEN [req EXCEPT ![p.owner].results =
                               SetItem(@, p.prefix, res.result)]
                      ELSE IF outcome.raised /\ req[p.owner].pc # "done"
                      THEN [req EXCEPT ![p.owner] =
                               global_exception_handler(@, "httpx.ConnectError")]
                      ELSE req
            /\ UNCHANGED <<settings, now, memory_store, redis_store,
                           inbound, outbound>>

\* A health probe completes: a background task, or one awaited by gather.
ProbeDone ==
    \E p \in probes, outcome \in ProbeOutcomes :
        LET res == check_service_health(Routes, service_health, p.prefix,
                                        outcome, now)
        IN  /\ service_health' = res.health
            /\ probes' = probes \ {p}
            /\ req' = IF p.kind = "gather"
                      THEN [req EXCEPT ![p.owner].results =
                               SetItem(@, p.prefix, res.result)]
                      ELSE req
            /\ UNCHANGED <<settings, now, memory_store, redis_store,
                           inbound, outbound>>

\* An aggregate that reports the cached status of each route instead of the
\* result of its own probe.
GatherDoneFromCache ==
    \E i \in 1..Len(req) :
        /\ req[i].pc = "gather"
        /\ ~\E p \in probes : p.owner = i /\ p.kind = "gather"
        /\ LET r == req[i]
               services == [k \in 1..Len(Routes) |->
                   LET status == IF Routes[k].prefix \in DOMAIN service_health
                                 THEN service_health[Routes[k].prefix]
                                 ELSE [is_healthy |-> TRUE, last_checked |-> now,
                                       error |-> None]
                   IN  [prefix |-> Routes[k].prefix, url |-> Routes[k].url,
                        is_healthy |-> status.is_healthy,
                        last_checked |-> status.last_checked,
                        error |-> status.error]]
           IN  req' = [req EXCEPT ![i] =
                   Finish([Respond(r, 200, <<"service_health_check">>,
                                   "application/json", "internal")
                             EXCEPT !.aggregate = services])]
        /\ UNCHANGED <<settings, now, memory_store, redis_store,
                       service_health, probes, inbound, outbound>>

\* service_health_check after asyncio.gather returned.
GatherDone ==
    \E i \in 1..Len(req) :
        /\ req[i].pc = "gather"
        /\ ~\E p \in probes : p.owner = i /\ p.kind = "gather"
        /\ LET r == req[i]
               services == [k \in 1..Len(Routes) |->
                   LET status == IF Routes[k].prefix \in DOMAIN service_health
                                 THEN service_health[Routes[k].prefix]
                                 ELSE [is_healthy |-> TRUE, last_checked |-> now,
                                       error |-> None]
                   IN  [prefix |-> Routes[k].prefix, url |-> Routes[k].url,
                        is_healthy |-> r.results[Routes[k].prefix],
                        last_checked |-> status.last_checked,
                        error |-> status.error]]
           IN  req' = [req EXCEPT ![i] =
                   Finish([Respond(r, 200, <<"service_health_check">>,
                                   "application/json", "internal")
                             EXCEPT !.aggregate = services])]
        /\ UNCHANGED <<settings, now, memory_store, redis_store,
                       service_health, probes, inbound, outbound>>

\* ======================================================================
\* The gateway: middleware, router, backends and health probes.
\* ======================================================================
AuthRoute    == ServiceInfo(<<"/", "auth">>, <<"http://auth-service:8000">>)
AdminRoute   == ServiceInfo(<<"/", "auth", "/", "admin">>, <<"http://admin:8006">>)
ReportsRoute == ServiceInfo(<<"/", "reports">>, <<"http://reports-service:8001">>)
\* SERVICE_ROUTES as configured: the default table, two tables with
\* overlapping prefixes in either order, and one whose first route has no URL.
RouteTables ==
    { DefaultRoutes,
      <<AuthRoute, AdminRoute>>,
      <<AdminRoute, AuthRoute>>,
      <<ServiceInfo(<<"/", "auth">>, Empty), ReportsRoute>> }

GatewayPaths ==
    { <<"auth", "/", "admin", "/", "x">>,
      <<"/", "reports", "/", "x">>,
      <<"unknown", "/", "path">> }

MaxGatewayReq == 2      \* requests received during a run of the gateway
GatewayTicks == 1       \* clock ticks during a run of the gateway

\* The in-memory limiter in front of the router.
Init ==
    /\ InitState
    /\ \E l \in Limits, routes \in RouteTables :
           settings = MakeSettings(TRUE, None, l, 1, routes)

Next ==
    \/ Tick(StartTime + GatewayTicks)
    \/ Receive({Empty}, {IPv4}, GatewayPaths, MaxGatewayReq, FALSE)
    \/ ProxyRequest
    \/ BackendResponds({200, 404})
    \/ BackendFails({"httpx.ConnectError"})
    \/ ProbeDone

Spec == Init /\ [][Next]_vars

\* The router with rate limiting disabled: every way the outbound call can
\* end, and the internal route that gathers the health of all services.
ProxyPaths == { <<"/", "reports", "/", "x">>, <<"services", "/", "health">> }

NoUrlRoutes == <<ServiceInfo(<<"/", "auth">>, Empty), ReportsRoute>>

InitProxy ==
    /\ InitState
    /\ \E routes \in {DefaultRoutes, NoUrlRoutes} :
           settings = MakeSettings(FALSE, None, 1, 1, routes)

NextProxy ==
    \/ Receive({Empty}, {IPv4}, ProxyPaths, MaxGatewayReq, FALSE)
    \/ ProxyRequest
    \/ BackendResponds({200})
    \/ BackendFails(BackendExceptions)
    \/ ProbeDone
    \/ GatherDone

SpecProxy == InitProxy /\ [][NextProxy]_vars

\* The router under every method, with a route table that has a prefix
\* equal to an internal path.
HealthRoute == ServiceInfo(<<"/", "health">>, <<"http://health-backend:8009">>)
InternalPaths ==
    { <<"health">>, <<"routes">>, <<"services", "/", "health">>,
      <<"health", "/", "x">> }

MaxInternalReq == 1     \* requests received during a run of the router alone

InitInternal ==
    /\ InitState
    /\ \E routes \in {DefaultRoutes, <<HealthRoute, ReportsRoute>>} :
           settings = MakeSettings(FALSE, None, 1, 1, routes)

NextInternal ==
    \/ Receive({Empty}, {IPv4}, InternalPaths, MaxInternalReq, FALSE)
    \/ RouterDispatch(Methods)
    \/ BackendResponds({200})
    \/ ProbeDone
    \/ GatherDone

SpecInternal == InitInternal /\ [][NextInternal]_vars

\* ======================================================================
\* preserve_headers applied to any inbound header set.
\* ======================================================================
HeaderNames ==
    {"host", "connection", "content-length", "x-forwarded-for",
     "x-gateway-secret", "authorization"}
InboundValue(name) == << <<"inbound", name>> >>
ClientHosts == {Empty, IPv4, IPv6}      \* Empty: request.client is None

InitHeaders ==
    /\ now = StartTime
    /\ memory_store = <<>>
    /\ redis_store = <<>>
    /\ service_health = <<>>
    /\ probes = {}
    /\ req = <<>>
    /\ settings = MakeSettings(TRUE, None, 1, 1, DefaultRoutes)
    /\ outbound = [built |-> FALSE, headers |-> Empty]
    /\ \E names \in SUBSET HeaderNames, host \in ClientHosts :
           inbound = [headers |-> [k \in names |-> InboundValue(k)],
                      client_host |-> host]

\* proxy_request calls preserve_headers(request).
BuildHeaders ==
    /\ ~outbound.built
    /\ outbound' = [built |-> TRUE,
                    headers |-> preserve_headers(inbound.headers,
                                    inbound.client_host,
                                    settings.PROXY_SECRET_KEY)]
    /\ UNCHANGED <<settings, now, memory_store, redis_store, service_health,
                   probes, req, inbound>>

NextHeaders == BuildHeaders

SpecHeaders == InitHeaders /\ [][NextHeaders]_vars

\* ======================================================================
\* Claims about the rate limiter
\* ======================================================================
Reqs == 1..Len(req)
\* No check has raised or failed open so far.
NoBackendError == \A i \in Reqs : ~req[i].failed_open /\ req[i].exc = None

\* The calls of one client answered allowed=true in the T seconds from s.
AdmittedIn(client_id, s) ==
    {i \in Reqs : /\ req[i].checked /\ req[i].allowed
                  /\ req[i].client_id = client_id
                  /\ s <= req[i].t_call /\ req[i].t_call < s + Secs(Period)}

\* The calls before call j, of the same client, admitted less than T seconds
\* before it.
AdmittedBefore(j) ==
    {i \in 1..(j - 1) : /\ req[i].checked /\ req[i].allowed
                        /\ req[i].client_id = req[j].client_id
                        /\ req[i].t_call > req[j].t_call - Secs(Period)}

WindowBound ==
    /\ \A i \in Reqs :
           Cardinality(AdmittedIn(req[i].client_id, req[i].t_call)) <= Limit
    /\ \A j \in Reqs :
           req[j].checked /\ Cardinality(AdmittedBefore(j)) >= Limit
               => ~req[j].allowed /\ req[j].pc = "done" /\ req[j].status = 429

\* C1: while the counter backend raises no error, at most L calls of a client
\* are answered allowed=true inside any window of T seconds, and the (L+1)th
\* request within T seconds of the window's start is answered allowed=false
\* and turned into a 429, on either backend.
C1_AtMostLimitPerWindow == NoBackendError => WindowBound

\* The in-memory backend alone keeps the bound of C1.
C1_MemoryWindowBound == NoBackendError /\ ~UsesRedis => WindowBound
C1_MemoryWitness ==
    /\ ~UsesRedis /\ NoBackendError
    /\ \E j \in Reqs : req[j].status = 429 /\ Cardinality(AdmittedBefore(j)) = 2

\* No two calls of one client read the same clock value.
DistinctClockValues ==
    \A i, j \in Reqs : i # j /\ req[i].client_id = req[j].client_id
                           => req[i].t_call # req[j].t_call
\* The Redis backend keeps the bound of C1 as long as no two calls of a
\* client read the same clock value.
C1_RedisWindowBound ==
    NoBackendError /\ UsesRedis /\ DistinctClockValues => WindowBound

\* Request i is the Rank(i)-th request of its client; FirstOf(i) is that
\* client's first request.
Rank(i) ==
    Cardinality({j \in 1..i : req[j].client_id = req[i].client_id})
FirstOf(i) == MinOf({j \in 1..i : req[j].client_id = req[i].client_id})
WithinOnePeriod(i) ==
    req[i].t_call - req[FirstOf(i)].t_call < Secs(Period)
\* The middleware has answered request i or passed it on.
Decided(i) == req[i].pc \notin {"received", "zrange"}

BurstOutcome ==
    \A i \in Reqs :
        Decided(i) /\ WithinOnePeriod(i) =>
            /\ Rank(i) <= Limit =>
                   req[i].checked /\ req[i].allowed /\ req[i].status # 429
            /\ Rank(i) = Limit + 1 =>
                   /\ req[i].checked /\ ~req[i].allowed
                   /\ req[i].status = 429
                   /\ req[i].xrl /\ req[i].xrl_remaining = 0

NoFailOpen == \A i \in Reqs : ~req[i].failed_open

\* C2: a client with no recorded requests issues L+1 requests within one
\* period: the first L are allowed, the (L+1)th is rejected with 429 and
\* X-RateLimit-Remaining: 0, on either backend.
C2_BurstOfLimitPlusOne == NoFailOpen => BurstOutcome

\* The burst of C2 on the in-memory backend when no call raises, and on the
\* Redis backend when no two calls of a client read the same clock value.
C2_MemoryBurst == ~UsesRedis /\ NoBackendError => BurstOutcome
C2_RedisBurst  == UsesRedis /\ NoFailOpen /\ DistinctClockValues => BurstOutcome

\* What the store holds for the client after call i, were the call to drop
\* the entries at or before now - period and to record the current timestamp
\* exactly when it answers allowed=true.
RecordedAsClaimed(i) ==
    LET r      == req[i]
        cutoff == r.t_call - Secs(Period)
    IN  IF UsesRedis
        THEN LET kept == {x \in r.before : x > cutoff}
             IN  IF r.allowed
                 THEN r.after = kept \cup {r.t_call} /\ r.t_call \notin kept
                 ELSE r.after = kept
        ELSE LET kept == SelectSeq(r.before, LAMBDA x : x > cutoff)
             IN  IF r.allowed
                 THEN r.after = Append(kept, r.t_call)
                 ELSE r.after = kept

\* C3: a call answered allowed=false records nothing (the stored timestamps
\* are those stored before, minus the expired ones); a call answered
\* allowed=true adds exactly one entry, the current timestamp; on either
\* backend.
C3_RejectedCallRecordsNothing ==
    \A i \in Reqs :
        req[i].checked /\ ~req[i].failed_open => RecordedAsClaimed(i)

\* The in-memory backend alone records as C3 says.
C3_MemoryRecords ==
    ~UsesRedis => \A i \in Reqs : req[i].checked => RecordedAsClaimed(i)
C3_MemoryWitness ==
    /\ ~UsesRedis
    /\ \E i \in Reqs : /\ req[i].checked /\ ~req[i].allowed
                       /\ Len(req[i].after) = 2 /\ req[i].after = req[i].before
\* The Redis backend records a rejected call also when all clock values are
\* distinct: this formula is violated.
C3_RedisRecords ==
    UsesRedis /\ DistinctClockValues =>
        \A i \in Reqs : req[i].checked /\ ~req[i].failed_open
                             => RecordedAsClaimed(i)

\* C4: when an operation on the Redis store raises during a check, check
\* raises nothing and returns allowed=true, remaining = the configured limit
\* and reset = now + period, and the middleware passes the request on.
C4_FailOpen ==
    \A i \in Reqs :
        req[i].failed_open =>
            /\ req[i].checked /\ req[i].exc = None
            /\ req[i].allowed
            /\ req[i].remaining = settings.DEFAULT_RATE_LIMIT
            /\ req[i].reset_time =
                   int(req[i].t_fail) + settings.DEFAULT_RATE_LIMIT_PERIOD
            /\ req[i].pc # "zrange"
            /\ req[i].origin # "rate_limiter" /\ req[i].status # 429

\* A call that the pipeline counted over the limit, whose zrange raised, is
\* passed on to routing.
C4_Witness ==
    \E i \in Reqs :
        /\ req[i].failed_open /\ req[i].t_fail > req[i].t_call
        /\ Cardinality(req[i].after) > Limit
        /\ req[i].pc = "router"

\* ======================================================================
\* Claims about the proxy path
\* ======================================================================
Internal(i) == normalize(req[i].path) \in DOMAIN INTERNAL_ROUTES
Unrouted(i) ==
    /\ req[i].pc = "done"
    /\ req[i].origin # "rate_limiter"
    /\ ~Internal(i)
    /\ \A k \in 1..Len(Routes) :
           ~startswith(normalize(req[i].path), Routes[k].prefix)

\* C5: a proxied request whose path matches no configured route prefix is
\* answered 404 with a body that mentions the attempted path, and no backend
\* call is made.
C5_NoRouteIs404 ==
    \A i \in Reqs :
        Unrouted(i) =>
            /\ req[i].status = 404
            /\ Mentions(req[i].body, req[i].path)
            /\ ~req[i].forwarded

\* What the code does for such a request: the HTTPException(404) raised by
\* get_service_url inside the try block is caught by "except Exception" and
\* answered 500 with the generic body; no backend call is made.
C5_NoRouteIs500 ==
    \A i \in Reqs :
        Unrouted(i) =>
            /\ req[i].status = 500
            /\ req[i].exc = "HTTPException"
            /\ ~Mentions(req[i].body, req[i].path)
            /\ ~req[i].forwarded

C5_NoRouteWitness ==
    \E i \in Reqs : Unrouted(i) /\ req[i].path = <<"unknown", "/", "path">>

\* C6: route resolution picks the first route, in configuration order, whose
\* prefix is a prefix of the request path with a leading slash added when
\* missing; the request goes to that route's backend; the same path resolves
\* to the same route every time under one configuration.
WithSlash(path) == IF Len(path) > 0 /\ path[1] = "/" THEN path ELSE <<"/">> \o path
IsPrefixOf(p, s) == \E rest \in {SubSeq(s, Len(p) + 1, Len(s))} : s = p \o rest
Resolved(i) == req[i].consulted /\ req[i].prefix # Empty
C6_FirstMatchWins ==
    /\ \A i \in Reqs :
           req[i].consulted =>
               \A k \in 1..Len(Routes) :
                   ( /\ IsPrefixOf(Routes[k].prefix, WithSlash(req[i].path))
                     /\ \A j \in 1..(k - 1) :
                            ~IsPrefixOf(Routes[j].prefix, WithSlash(req[i].path)) )
                   => /\ req[i].prefix = Routes[k].prefix
                      /\ req[i].pc = "backend" =>
                             req[i].target_url =
                                 Routes[k].url \o <<"/">> \o req[i].path
    /\ \A i, j \in Reqs :
           req[i].consulted /\ req[j].consulted /\ req[i].path = req[j].path
               => req[i].prefix = req[j].prefix

\* Two configured prefixes match the path and the first-listed one, which is
\* the shorter, was chosen; and the same with the longer one listed first.
C6_Witness ==
    /\ Routes = <<AuthRoute, AdminRoute>>
    /\ \E i, j \in Reqs :
           /\ i # j
           /\ req[i].path = <<"auth", "/", "admin", "/", "x">>
           /\ req[j].path = req[i].path
           /\ req[i].pc = "backend"
           /\ req[i].prefix = <<"/", "auth">>
           /\ req[i].target_url =
                  <<"http://auth-service:8000", "/", "auth", "/", "admin", "/", "x">>
           /\ req[j].consulted

\* C7: when the outbound call of a routed request times out the client gets
\* 504; when it fails with another connection or network error the client
\* gets 502 with a plain-text body containing "Unable to reach the service";
\* a timeout is never answered 502.
Raised(i, classes) ==
    /\ req[i].pc = "done"
    /\ req[i].target_url # Empty
    /\ req[i].exc \in classes
C7_TimeoutIs504 ==
    \A i \in Reqs :
        /\ Raised(i, TimeoutClasses) =>
               req[i].status = 504 /\ req[i].status # 502
        /\ Raised(i, NetworkClasses) =>
               /\ req[i].status = 502
               /\ req[i].ctype = "text/plain"
               /\ Mentions(req[i].body, <<"Unable to reach the service: ">>)

C7_Witness ==
    \E i, j \in Reqs :
        /\ Raised(i, {"httpx.ConnectTimeout"}) /\ req[i].status = 504
        /\ Raised(j, {"httpx.ConnectError"}) /\ req[j].status = 502
        /\ req[j].path = <<"/", "reports", "/", "x">>

\* C8: every proxied request ends in one of 429, 404, the backend's status
\* relayed, 504, 502 or 500; the gateway itself answers with no other status
\* outside 2xx.
TerminalStatuses == {429, 404, 504, 502, 500}
C8_TerminalStates ==
    \A i \in Reqs :
        req[i].pc = "done" /\ ~Internal(i) /\ req[i].origin # "backend"
            => \/ req[i].status \in TerminalStatuses
               \/ req[i].status \in 200..299

\* The statuses the gateway produces on the proxy path: 429, 503, 504, 502
\* and 500; 404 is not among them.
C8_GatewayStatuses ==
    \A i \in Reqs :
        req[i].pc = "done" /\ ~Internal(i) /\ req[i].origin # "backend"
            => req[i].status \in {429, 503, 504, 502, 500}

C8_Witness503 ==
    \E i \in Reqs :
        /\ req[i].pc = "done"
        /\ req[i].status = 503
        /\ req[i].origin = "proxy"
        /\ req[i].exc = "ServiceUnavailableError"

\* C9: the rate-limit check comes before route resolution: a request the
\* limiter rejects is answered 429 with the route table not consulted, no
\* backend call made and no health probe spawned for it, and the step that
\* rejects it leaves the health-status map as it was.
Rejected(r) == r.pc = "done" /\ r.status = 429 /\ r.origin = "rate_limiter"
RejectedUntouched ==
    \A i \in Reqs :
        Rejected(req[i]) =>
            /\ ~req[i].consulted
            /\ req[i].prefix = Empty
            /\ req[i].target_url = Empty
            /\ ~req[i].forwarded
            /\ ~req[i].spawned
            /\ \A p \in probes : p.owner # i
RejectingStep ==
    \E i \in 1..Len(req') :
        /\ Rejected(req'[i])
        /\ i > Len(req) \/ ~Rejected(req[i])
C9_LimiterBeforeRouter ==
    /\ []RejectedUntouched
    /\ [][RejectingStep =>
             service_health' = service_health /\ probes' = probes]_vars

\* One request was routed and probed, so the health map is not empty, and a
\* later one was rejected.
C9_Witness ==
    \E i, j \in Reqs :
        /\ i < j
        /\ req[i].consulted /\ req[i].spawned
        /\ DOMAIN service_health # {}
        /\ Rejected(req[j])
        /\ ~req[j].consulted

\* C10: the headers built for a forwarded request never contain host,
\* connection or content-length, and always contain x-gateway-secret and
\* x-forwarded-for, whatever the inbound request carried; the secret is the
\* gateway's own and the last forwarded-for item is the caller's address.
Hygienic(h, client_host) ==
    /\ {"host", "connection", "content-length"} \cap DOMAIN h = {}
    /\ {"x-gateway-secret", "x-forwarded-for"} \subseteq DOMAIN h
    /\ h["x-gateway-secret"] = <<settings.PROXY_SECRET_KEY>>
    /\ LET xff == h["x-forwarded-for"]
       IN  xff[Len(xff)] = IF client_host = Empty THEN <<"unknown">>
                           ELSE client_host
C10_HeaderHygiene ==
    outbound.built => Hygienic(outbound.headers, inbound.client_host)

C10_Witness ==
    /\ outbound.built
    /\ {"host", "connection", "content-length", "x-forwarded-for",
        "x-gateway-secret"} \subseteq DOMAIN inbound.headers
    /\ Len(outbound.headers["x-forwarded-for"]) = 2
    /\ outbound.headers["x-gateway-secret"] # inbound.headers["x-gateway-secret"]

\* ======================================================================
\* Claims about health probes
\* ======================================================================
Proxied(i) == req[i].consulted /\ req[i].target_url # Empty
AnsweredByProxyPath(i) ==
    req[i].pc = "done" /\ req[i].origin \in {"backend", "proxy"}

\* C11: health probes are fire-and-forget.  The step in which a background
\* probe completes, whatever its outcome, changes no request (nothing is
\* raised to a caller, nobody was waiting for it) and records the outcome in
\* the health-status map; the step that answers a proxied request does not
\* touch the probes, and the answer is the backend's response or the error
\* response of the exception the outbound call raised, whatever the state
\* of the probe the request spawned.
BackgroundProbeCompletes ==
    \E p \in probes : p.kind = "task" /\ p \notin probes'
ProbeStepIsSilent ==
    BackgroundProbeCompletes =>
        /\ req' = req
        /\ \A p \in probes \ probes' :
               /\ p.prefix \in DOMAIN service_health'
               /\ service_health'[p.prefix].last_checked = now
AnswerStepIgnoresProbes ==
    \A i \in Reqs :
        req[i].pc = "backend" /\ req'[i].pc = "done" =>
            /\ probes' = probes
            /\ service_health' = service_health
            /\ IF req'[i].exc = None
               THEN req'[i].origin = "backend" /\ req'[i].status \in {200, 404}
               ELSE /\ req'[i].origin = "proxy"
                    /\ req'[i].status = 502
C11_FireAndForget ==
    [][ProbeStepIsSilent /\ AnswerStepIgnoresProbes]_vars

\* Two proxied requests were answered 200 by their backends, the probe of
\* one still pending, the probe of the other failed and recorded.
C11_Witness ==
    \E i, j \in Reqs :
        /\ i # j
        /\ AnsweredByProxyPath(i) /\ req[i].status = 200 /\ req[i].spawned
        /\ \E p \in probes : p.owner = i /\ p.kind = "task"
        /\ AnsweredByProxyPath(j) /\ req[j].status = 200 /\ req[j].spawned
        /\ ~\E p \in probes : p.owner = j
        /\ req[j].prefix \in DOMAIN service_health
        /\ service_health[req[j].prefix].error = "timed out"

\* C12: a completed probe sets the route healthy exactly when the health
\* endpoint answered 200 and otherwise sets it unhealthy and records the
\* error text, so that GET /services/health then reports the route as
\* unhealthy with the captured error.
Aggregated(i) ==
    /\ req[i].pc = "done"
    /\ req[i].origin = "internal"
    /\ req[i].aggregate # Empty
C12_UnhealthyHasError ==
    /\ \A prefix \in DOMAIN service_health :
           ~service_health[prefix].is_healthy
               => service_health[prefix].error # None
    /\ \A i \in Reqs :
           Aggregated(i) =>
               \A k \in 1..Len(req[i].aggregate) :
                   ~req[i].aggregate[k].is_healthy
                       => req[i].aggregate[k].error # None

\* What does hold: an entry of the health-status map with an error text is
\* unhealthy.  (The aggregate takes is_healthy from its own probe and the
\* error text from the map when gather returns, so it can pair the two of
\* different probes.)
C12_ErrorImpliesUnhealthy ==
    \A prefix \in DOMAIN service_health :
        service_health[prefix].error # None
            => ~service_health[prefix].is_healthy

\* GET /services/health was answered with a route reported unhealthy and no
\* error text: its health endpoint had answered with a status other than 200.
C12_UnhealthyWithoutError ==
    \E i \in Reqs :
        /\ Aggregated(i)
        /\ \E k \in 1..Len(req[i].aggregate) :
               /\ ~req[i].aggregate[k].is_healthy
               /\ req[i].aggregate[k].error = None

\* C13: the cached status of a route changes only in a step in which a
\* probe of that route completes, so reads between two completions see one
\* value, and that value is "healthy" for a route never probed; a completion
\* replaces the whole entry: the new entry carries the time of the completion
\* and an error text only if this probe raised, never the text of an earlier
\* one.
CachedStatus(health, prefix) == StatusOf(health, prefix).is_healthy
ChangesOnlyByProbe ==
    \A k \in 1..Len(Routes) :
        LET prefix == Routes[k].prefix
        IN  StatusOf(service_health', prefix) # StatusOf(service_health, prefix)
                => \E p \in probes \ probes' : p.prefix = prefix
ReplacesWholeEntry ==
    \A p \in probes \ probes' :
        p.prefix \in DOMAIN service_health' =>
            LET entry == service_health'[p.prefix]
            IN  /\ entry.last_checked = now
                /\ entry.error # None => ~entry.is_healthy
                /\ entry \in {[is_healthy |-> TRUE, last_checked |-> now,
                               error |-> None],
                              [is_healthy |-> FALSE, last_checked |-> now,
                               error |-> None],
                              [is_healthy |-> FALSE, last_checked |-> now,
                               error |-> "timed out"]}
NeverProbedReadsHealthy ==
    \A k \in 1..Len(Routes) :
        Routes[k].prefix \notin DOMAIN service_health
            => CachedStatus(service_health, Routes[k].prefix)
C13_StatusChangesOnlyByProbe ==
    /\ []NeverProbedReadsHealthy
    /\ [][ChangesOnlyByProbe /\ ReplacesWholeEntry]_vars

\* An aggregate answered earlier shows the error text the map then held for
\* a route; the route has been probed again since and its entry is healthy
\* with no error text.
C13_Witness ==
    \E i \in Reqs :
        /\ Aggregated(i)
        /\ \E k \in 1..Len(req[i].aggregate) :
               LET prefix == req[i].aggregate[k].prefix
               IN  /\ req[i].aggregate[k].error = "timed out"
                   /\ prefix \in DOMAIN service_health
                   /\ service_health[prefix] =
                          [is_healthy |-> TRUE, last_checked |-> now,
                           error |-> None]

\* ======================================================================
\* Claims about the internal endpoints
\* ======================================================================
\* C14: a request whose path is exactly /health, /routes or /services/health
\* is served by the gateway's own handler, under every method: it is never
\* resolved against the prefix route table, never forwarded to a backend,
\* and its answer is the handler's.
ExactInternalPaths ==
    { <<"/", "health">>, <<"/", "routes">>, <<"/", "services", "/", "health">> }
HasInternalPath(i) == WithSlash(req[i].path) \in ExactInternalPaths
C14_InternalBeforeProxy ==
    \A i \in Reqs :
        HasInternalPath(i) =>
            /\ ~req[i].consulted
            /\ req[i].prefix = Empty
            /\ req[i].target_url = Empty
            /\ ~req[i].forwarded
            /\ req[i].pc \in {"router", "gather", "done"}
            /\ req[i].pc = "done" =>
                   req[i].origin = "internal" /\ req[i].status = 200

\* /health is also a configured prefix, and a POST of /health was answered
\* by the gateway's handler.
C14_Witness ==
    /\ Routes[1].prefix = <<"/", "health">>
    /\ \E i \in Reqs :
           /\ req[i].path = <<"health">>
           /\ req[i].method = "POST"
           /\ req[i].pc = "done"
           /\ req[i].origin = "internal"
           /\ req[i].body = <<"health_check">>

\* ======================================================================
\* Claims about the rate-limiting middleware
\* ======================================================================
CarriesCheckValues(r) ==
    /\ r.xrl
    /\ r.checked
    /\ r.xrl_remaining = r.remaining
    /\ r.xrl_reset = r.reset_time

\* C15: with rate limiting enabled, every response that leaves the gateway
\* carries X-RateLimit-Remaining and X-RateLimit-Reset with the values the
\* check made for that request returned.
C15_EveryResponseCarriesHeaders ==
    settings.ENABLE_RATE_LIMITING =>
        \A i \in Reqs : req[i].pc = "done" => CarriesCheckValues(req[i])

\* What does hold: every response to a request whose check returned carries
\* the two headers with the returned values.
C15_HeadersWhenCheckReturned ==
    settings.ENABLE_RATE_LIMITING =>
        \A i \in Reqs :
            req[i].pc = "done" /\ req[i].checked => CarriesCheckValues(req[i])

\* The check raised and the 500 of the exception handler left without the
\* headers.
C15_ResponseWithoutHeaders ==
    /\ settings.ENABLE_RATE_LIMITING
    /\ \E i \in Reqs :
           /\ req[i].pc = "done"
           /\ req[i].status = 500
           /\ req[i].origin = "exception_handler"
           /\ ~req[i].checked
           /\ ~req[i].xrl

\* C16: with the rate-limiting toggle off every request is passed on to the
\* router, none is answered 429, check is never called and no step changes
\* the rate-window stores.
PassedOnUnchecked(r) ==
    /\ r.pc \in {"router", "backend", "gather", "done"}
    /\ ~r.checked
    /\ r.t_call = NoInt
    /\ r.status # 429
    /\ r.origin # "rate_limiter"
    /\ ~r.xrl
C16_ToggleOffBypasses ==
    /\ [](~settings.ENABLE_RATE_LIMITING =>
             /\ \A i \in Reqs : PassedOnUnchecked(req[i])
             /\ memory_store = <<>>
             /\ redis_store = <<>>)
    /\ [][~settings.ENABLE_RATE_LIMITING =>
             memory_store' = memory_store /\ redis_store' = redis_store]_vars

\* With a limit of one, two requests of one client were both relayed.
C16_Witness ==
    /\ ~settings.ENABLE_RATE_LIMITING
    /\ settings.DEFAULT_RATE_LIMIT = 1
    /\ \E i, j \in Reqs :
           /\ i # j
           /\ req[i].client_id = req[j].client_id
           /\ req[i].pc = "done" /\ req[i].origin = "backend"
           /\ req[j].pc = "done" /\ req[j].origin = "backend"
           /\ req[i].status = 200 /\ req[j].status = 200

\* ======================================================================
\* Claims about the values RateLimiter.check returns
\* ======================================================================
Returned(i) == req[i].checked /\ ~req[i].failed_open
Retained(i) == IF UsesRedis THEN req[i].after ELSE Range(req[i].after)
RetainedCount(i) ==
    IF UsesRedis THEN Cardinality(req[i].after) ELSE Len(req[i].after)
ExpectedRemaining(i) == Max(0, Limit - RetainedCount(i))
ExpectedReset(i) ==
    IF ExpectedRemaining(i) > 0 THEN int(req[i].t_call) + Period
    ELSE int(MinOf(Retained(i))) + Period
ReturnsClaimedValues(i) ==
    /\ req[i].remaining = ExpectedRemaining(i)
    /\ req[i].reset_time = ExpectedReset(i)

\* C17: every check that returns normally returns remaining = max(0, limit -
\* count), count being the entries retained for the client after the call,
\* and a reset time of now + period (in whole seconds) when remaining > 0 and
\* otherwise of the oldest retained timestamp plus period, on both backends.
C17_RemainingAndReset ==
    \A i \in Reqs : Returned(i) => ReturnsClaimedValues(i)

\* The in-memory backend returns the claimed values.
C17_MemoryValues ==
    ~UsesRedis => \A i \in Reqs : Returned(i) => ReturnsClaimedValues(i)

\* The Redis backend returns the claimed remaining, and the claimed reset
\* time whenever zrange ran at the clock value of the pipeline with no other
\* call of the client in between.
C17_RedisValues ==
    UsesRedis =>
        \A i \in Reqs :
            Returned(i) =>
                /\ req[i].remaining = ExpectedRemaining(i)
                /\ req[i].remaining > 0 => req[i].reset_time = ExpectedReset(i)

\* C18: the reset time R returned with a rejection is the earliest time the
\* window admits a new request: a later check of the same client at a time
\* >= R, with no request of the client admitted in between, is answered
\* allowed, however many of its requests were rejected before.
SameClient(i, j) == req[i].client_id = req[j].client_id
NoneAdmittedBetween(i, j) ==
    \A k \in Reqs :
        i < k /\ k < j /\ SameClient(i, k) => ~req[k].allowed
RejectedThenChecked(i, j) ==
    /\ i < j
    /\ SameClient(i, j)
    /\ Returned(i) /\ ~req[i].allowed
    /\ Returned(j)
    /\ NoneAdmittedBetween(i, j)
C18_AdmittedAtResetTime ==
    \A i, j \in Reqs :
        RejectedThenChecked(i, j) /\ req[j].t_call >= Secs(req[i].reset_time)
            => req[j].allowed

\* What holds on the in-memory backend: the later check is allowed once the
\* oldest entry the rejected call retained is a full period old.
C18_MemoryAdmitsAfterOldest ==
    ~UsesRedis =>
        \A i, j \in Reqs :
            ( /\ RejectedThenChecked(i, j)
              /\ req[j].t_call >= MinOf(Range(req[i].after)) + Secs(Period) )
            => req[j].allowed

\* A client rejected with reset time R is rejected again at a time >= R.
C18_RejectedAtResetTime ==
    \E i, j \in Reqs :
        /\ RejectedThenChecked(i, j)
        /\ req[j].t_call >= Secs(req[i].reset_time)
        /\ ~req[j].allowed

\* The same on the in-memory backend, where the reset time is rounded down.
C18_MemoryRejectedAtResetTime ==
    ~UsesRedis /\ C18_RejectedAtResetTime

\* ======================================================================
\* Claims about client identities
\* ======================================================================
\* The store a client would find if only its own requests, among the first
\* n, had been checked.
RECURSIVE MemoryAlone(_, _)
MemoryAlone(client_id, n) ==
    IF n = 0 THEN <<>>
    ELSE LET s == MemoryAlone(client_id, n - 1)
         IN  IF req[n].client_id = client_id
             THEN _check_memory(s, client_id, Limit, Period, req[n].t_call).store
             ELSE s
RECURSIVE RedisAlone(_, _)
RedisAlone(client_id, n) ==
    IF n = 0 THEN <<>>
    ELSE LET s == RedisAlone(client_id, n - 1)
         IN  IF req[n].client_id = client_id
             THEN RedisPipeline(s, client_id, Limit, Period, req[n].t_call).store
             ELSE s

CheckRaised(i) == req[i].pc = "done" /\ req[i].origin = "exception_handler"
SameAsAloneMemory(i) ==
    LET alone == _check_memory(MemoryAlone(req[i].client_id, i - 1),
                               req[i].client_id, Limit, Period, req[i].t_call)
    IN  /\ CheckRaised(i) = alone.raised
        /\ ~alone.raised =>
               /\ req[i].allowed = alone.allowed
               /\ req[i].remaining = alone.remaining
               /\ req[i].reset_time = alone.reset_time
SameAsAloneRedis(i) ==
    LET alone == RedisPipeline(RedisAlone(req[i].client_id, i - 1),
                               req[i].client_id, Limit, Period, req[i].t_call)
    IN  /\ ~CheckRaised(i)
        /\ req[i].allowed = alone.allowed
        /\ req[i].remaining = alone.remaining
Independent ==
    \A i \in Reqs :
        IF UsesRedis THEN SameAsAloneRedis(i) ELSE SameAsAloneMemory(i)

\* C19: the rate-limit key is the bearer credential, else the remote
\* address, and the windows of distinct identities are independent: what a
\* check answers to an identity (allowed, remaining, reset, or an error) is
\* what it would answer had no other identity made any request.
C19_IdentitiesIndependent ==
    /\ \A i \in Reqs :
           req[i].client_id = _get_client_id(req[i].auth, req[i].host)
    /\ Independent

\* What holds: the Redis backend is independent, and so is the in-memory
\* backend as long as no stored client id contains ':'.
C19_RedisIndependent == UsesRedis => Independent
C19_MemoryIndependentWithoutColon ==
    (~UsesRedis /\ \A i \in Reqs : Len(req[i].client_id) = 1) => Independent

\* The key is the Authorization header exactly when it is a bearer
\* credential.
C19_KeyDerivation ==
    \A i \in Reqs :
        req[i].client_id =
            IF req[i].auth = <<"Bearer t1">> THEN req[i].auth ELSE req[i].host

\* A check of 10.0.0.1 raised although the client alone would have been
\* answered: the store held the key of client ::1.
C19_PoisonedByOtherClient ==
    \E i, j \in Reqs :
        /\ j < i
        /\ req[i].client_id = IPv4
        /\ req[j].client_id = IPv6
        /\ CheckRaised(i)
        /\ ~_check_memory(MemoryAlone(IPv4, i - 1), IPv4, Limit, Period,
                          req[i].t_call).raised

\* ======================================================================
\* Claims about GET /services/health
\* ======================================================================
Prefixes == {Routes[k].prefix : k \in 1..Len(Routes)}
PendingFor(i) == {p.prefix : p \in {q \in probes : q.owner = i /\ q.kind = "gather"}}
HealthPath(i) == WithSlash(req[i].path) = <<"/", "services", "/", "health">>

\* C20: GET /services/health starts one probe for every configured route,
\* answers only after all of them have completed, and lists every configured
\* route with is_healthy equal to the result of the probe it ran for that
\* route, which is the status that probe wrote (false for a route with no
\* URL, which is never called).
OneProbePerRoute ==
    \A i \in Reqs :
        HealthPath(i) /\ req[i].pc = "gather" =>
            /\ PendingFor(i) \cup DOMAIN req[i].results = Prefixes
            /\ PendingFor(i) \cap DOMAIN req[i].results = {}
AnswersAfterAll ==
    \A i \in Reqs :
        HealthPath(i) /\ req[i].pc = "done" =>
            /\ PendingFor(i) = {}
            /\ DOMAIN req[i].results = Prefixes
            /\ Len(req[i].aggregate) = Len(Routes)
            /\ \A k \in 1..Len(Routes) :
                   /\ req[i].aggregate[k].prefix = Routes[k].prefix
                   /\ req[i].aggregate[k].is_healthy
                          = req[i].results[Routes[k].prefix]
ResultIsProbeOutcome ==
    \A p \in probes \ probes' :
        p.kind = "gather" =>
            /\ p.prefix \in DOMAIN req'[p.owner].results
            /\ req'[p.owner].results[p.prefix] =
                   IF \E k \in 1..Len(Routes) :
                          Routes[k].prefix = p.prefix /\ Routes[k].url # Empty
                   THEN service_health'[p.prefix].is_healthy
                   ELSE FALSE
C20_AggregateOfOwnProbes ==
    /\ [](OneProbePerRoute /\ AnswersAfterAll)
    /\ [][ResultIsProbeOutcome]_vars

\* An aggregate lists one route as healthy and the other as unhealthy, and
\* the cached status of the first has since been overwritten by another
\* probe.
C20_Witness ==
    \E i \in Reqs :
        /\ HealthPath(i) /\ Aggregated(i)
        /\ req[i].aggregate[1].is_healthy
        /\ ~req[i].aggregate[2].is_healthy
        /\ req[i].aggregate[1].prefix \in DOMAIN service_health
        /\ ~service_health[req[i].aggregate[1].prefix].is_healthy

\* ======================================================================
\* C21: a route without a backend URL is rejected when the route table is
\* built at startup: the gateway never holds a received request while some
\* configured route lacks a backend URL, and no request is ever answered
\* because of a missing backend URL.
MissingUrl == {k \in 1..Len(Routes) : Routes[k].url = Empty}
AnsweredForMissingUrl(i) ==
    /\ req[i].pc = "done"
    /\ req[i].origin = "proxy"
    /\ req[i].exc = "ServiceUnavailableError"
    /\ \E k \in MissingUrl : Routes[k].prefix = req[i].prefix
C21_FailFastOnMissingUrl ==
    /\ Len(req) > 0 => MissingUrl = {}
    /\ \A i \in Reqs : ~AnsweredForMissingUrl(i)

\* What the code does with such a table: it is accepted, requests are
\* received, and a request that matches the route is answered 503 with the
\* backend never called.
C21_MissingUrlIs503 ==
    \A i \in Reqs :
        AnsweredForMissingUrl(i) =>
            /\ req[i].status = 503
            /\ req[i].target_url = Empty
            /\ ~req[i].forwarded

C21_MissingUrlWitness ==
    \E i \in Reqs : AnsweredForMissingUrl(i) /\ req[i].status = 503

\* ======================================================================
\* The router over more than one staleness interval: time.time() read by
\* get_service_url and check_service_health moves by the whole interval, or
\* by a tick more, between two steps.
StaleHorizon == 1       \* ticks the clock runs past one staleness interval
MaxStaleReq == 3        \* requests received during such a run
ElapseSteps == {Secs(STALE_AFTER), Secs(STALE_AFTER) + 1}
Elapse(steps, t_max) ==
    /\ \E d \in steps : now + d <= t_max /\ now' = now + d
    /\ UNCHANGED <<settings, memory_store, redis_store, service_health,
                   probes, req, inbound, outbound>>

StalePaths == { <<"/", "reports", "/", "x">> }

InitStale ==
    /\ InitState
    /\ settings = MakeSettings(FALSE, None, 1, 1, DefaultRoutes)

NextStale ==
    \/ Elapse(ElapseSteps, StartTime + Secs(STALE_AFTER) + StaleHorizon)
    \/ Receive({Empty}, {IPv4}, StalePaths, MaxStaleReq, FALSE)
    \/ ProxyRequest
    \/ BackendResponds({200})
    \/ ProbeDone

SpecStale == InitStale /\ [][NextStale]_vars

\* C22: a proxied request that resolves to a route spawns a health probe
\* for the matched prefix exactly when the cached status is stale (never
\* checked, or now - last_checked > 60 seconds) or unhealthy; when the
\* cached status is healthy and at most 60 seconds old no probe is spawned;
\* in every case the request goes on with the value cached before, which
\* the step does not change.
NeverChecked(prefix) == prefix \notin DOMAIN service_health
StaleNow(prefix) ==
    \/ NeverChecked(prefix)
    \/ now - service_health[prefix].last_checked > Secs(60)
UnhealthyNow(prefix) ==
    ~NeverChecked(prefix) /\ ~service_health[prefix].is_healthy
ResolvingStep(i) ==
    /\ i \in Reqs
    /\ req[i].pc = "router"
    /\ req'[i].pc = "backend"
C22_SpawnStep ==
    \A i \in Reqs :
        ResolvingStep(i) =>
            LET p == req'[i].prefix
                due == StaleNow(p) \/ UnhealthyNow(p)
            IN  /\ req'[i].spawned <=> due
                /\ Probe(i, p, "task") \in probes' <=> due
                /\ ~due => probes' = probes
                /\ service_health' = service_health
                /\ req'[i].target_url # Empty
C22_ProbeWhenStaleOrUnhealthy == [][C22_SpawnStep]_vars

\* A request that spawned a probe for a never-checked prefix, and after it
\* one forwarded without a probe while the status is healthy and exactly 60
\* seconds old.
C22_Witness ==
    \E i, j \in Reqs :
        LET p == req[i].prefix
        IN  /\ req[i].pc = "backend" /\ ~req[i].spawned
            /\ ~NeverChecked(p) /\ service_health[p].is_healthy
            /\ now - service_health[p].last_checked = Secs(60)
            /\ req[j].spawned /\ req[j].prefix = p

\* A probe spawned for a status that was checked before: one healthy but
\* more than 60 seconds old, and one unhealthy and checked at this very
\* clock value.
C22_StaleAgain ==
    \E i \in Reqs :
        LET p == req[i].prefix
        IN  /\ Probe(i, p, "task") \in probes
            /\ ~NeverChecked(p) /\ service_health[p].is_healthy
            /\ now - service_health[p].last_checked = Secs(60) + 1
C22_UnhealthyAgain ==
    \E i \in Reqs :
        LET p == req[i].prefix
        IN  /\ Probe(i, p, "task") \in probes
            /\ ~NeverChecked(p) /\ ~service_health[p].is_healthy
            /\ now = service_health[p].last_checked

\* ======================================================================
\* C23: trim + count + add is atomic per client key on both backends: of
\* two concurrent check calls of one client made when exactly one slot is
\* left in the window (two calls reading the same clock value included), at
\* most one is answered allowed=true.
\* Calls i and j of one client are concurrent: j follows i within the
\* window, and nothing admitted before i has expired at j.
Concurrent(i, j) ==
    /\ i < j
    /\ req[i].client_id = req[j].client_id
    /\ req[i].checked /\ req[j].checked
    /\ req[j].t_call - req[i].t_call < Secs(Period)
    /\ AdmittedBefore(i) \subseteq AdmittedBefore(j)
OneSlotLeft(i) == Cardinality(AdmittedBefore(i)) = Limit - 1
LastSlotHasOneWinner ==
    \A i, j \in Reqs :
        Concurrent(i, j) /\ OneSlotLeft(i)
            => ~(req[i].allowed /\ req[j].allowed)
C23_AtMostOneWinsLastSlot == NoFailOpen => LastSlotHasOneWinner

\* The in-memory backend, whose check has no await between trim, count and
\* append, gives the last slot to one call, also at equal clock values.
C23_MemoryLastSlot == ~UsesRedis => LastSlotHasOneWinner
C23_MemoryWitness ==
    /\ ~UsesRedis
    /\ \E i, j \in Reqs :
           /\ Concurrent(i, j) /\ OneSlotLeft(i)
           /\ req[i].t_call = req[j].t_call
           /\ req[i].allowed /\ ~req[j].allowed /\ req[j].status = 429
\* The Redis transaction gives the last slot to one call as long as the two
\* calls read different clock values.
C23_RedisLastSlot ==
    UsesRedis /\ NoFailOpen /\ DistinctClockValues => LastSlotHasOneWinner
\* Two calls on Redis at one clock value that both took the last slot.
C23_RedisBothAdmitted ==
    /\ UsesRedis /\ NoFailOpen
    /\ \E i, j \in Reqs :
           /\ Concurrent(i, j) /\ OneSlotLeft(i)
           /\ req[i].t_call = req[j].t_call
           /\ req[i].allowed /\ req[j].allowed

\* ======================================================================
\* C24: the two backends are interchangeable: for every sequence of check
\* calls (client, time) with the same limit and period and no backend
\* error, the in-memory backend and the Redis backend return the same
\* allowed flag, the same remaining and the same reset time at every step,
\* the steps after a rejected request included.
\* The calls received so far, replayed on each backend from an empty store.
RECURSIVE MemoryReplay(_)
MemoryReplay(n) ==
    IF n = 0 THEN <<>>
    ELSE _check_memory(MemoryReplay(n - 1), req[n].client_id, Limit, Period,
                       req[n].t_call).store
RECURSIVE RedisReplay(_)
RedisReplay(n) ==
    IF n = 0 THEN <<>>
    ELSE RedisPipeline(RedisReplay(n - 1), req[n].client_id, Limit, Period,
                       req[n].t_call).store
MemoryAnswer(n) ==
    _check_memory(MemoryReplay(n - 1), req[n].client_id, Limit, Period,
                  req[n].t_call)
\* The Redis answer when zrange runs at the clock value of the pipeline.
RedisAnswer(n) ==
    LET t == req[n].t_call
        p == RedisPipeline(RedisReplay(n - 1), req[n].client_id, Limit,
                           Period, t)
    IN  [allowed |-> p.allowed, remaining |-> p.remaining,
         reset_time |-> IF p.remaining > 0 THEN int(t) + Period
                        ELSE RedisResetTime(p.store, req[n].client_id,
                                            Period, t, t)]
Called(n) == req[n].t_call # NoInt
NoMemoryRaise(n) == \A m \in 1..n : ~MemoryAnswer(m).raised
SameAnswer(n) ==
    /\ MemoryAnswer(n).allowed = RedisAnswer(n).allowed
    /\ MemoryAnswer(n).remaining = RedisAnswer(n).remaining
    /\ MemoryAnswer(n).reset_time = RedisAnswer(n).reset_time
C24_BackendsInterchangeable ==
    \A n \in Reqs : Called(n) /\ NoMemoryRaise(n) => SameAnswer(n)

\* What holds: the two backends agree on the allowed flag and on remaining
\* up to and including the first rejected call, when no two calls of a
\* client read the same clock value.
NoneRejectedBefore(n) == \A m \in 1..(n - 1) : MemoryAnswer(m).allowed
C24_AgreeUntilFirstRejection ==
    DistinctClockValues =>
        \A n \in Reqs :
            Called(n) /\ NoMemoryRaise(n) /\ NoneRejectedBefore(n) =>
                /\ MemoryAnswer(n).allowed = RedisAnswer(n).allowed
                /\ MemoryAnswer(n).remaining = RedisAnswer(n).remaining
\* A call that follows a rejected one and is allowed in memory but rejected
\* on Redis.
C24_DivergeAfterRejection ==
    \E m, n \in Reqs :
        /\ m < n /\ Called(n) /\ NoMemoryRaise(n)
        /\ req[m].client_id = req[n].client_id
        /\ ~MemoryAnswer(m).allowed /\ ~RedisAnswer(m).allowed
        /\ MemoryAnswer(n).allowed /\ ~RedisAnswer(n).allowed
\* The answers replayed on the configured backend are the answers given.
C24_ReplayIsActual ==
    \A n \in Reqs :
        req[n].checked /\ NoMemoryRaise(n) =>
            IF UsesRedis
            THEN /\ req[n].allowed = RedisAnswer(n).allowed
                 /\ req[n].remaining = RedisAnswer(n).remaining
            ELSE /\ req[n].allowed = MemoryAnswer(n).allowed
                 /\ req[n].remaining = MemoryAnswer(n).remaining
                 /\ req[n].reset_time = MemoryAnswer(n).reset_time

\* ======================================================================
\* C25: immediately after every check for a client, all timestamps recorded
\* for that client lie within [now - period, now], now being the clock
\* value the check read; and whenever the check answered allowed=true the
\* number of entries recorded for that client is at most limit.
CheckRan(i) == req[i].t_call # NoInt
WithinWindow(i) ==
    \A x \in Retained(i) :
        req[i].t_call - Secs(Period) <= x /\ x <= req[i].t_call
C25_WindowInvariant ==
    \A i \in Reqs :
        CheckRan(i) =>
            /\ WithinWindow(i)
            /\ req[i].allowed => RetainedCount(i) <= Limit

\* An allowed call that dropped an entry recorded exactly one period before
\* it and left the window full.
C25_Witness ==
    \E i \in Reqs :
        /\ CheckRan(i) /\ req[i].checked /\ req[i].allowed
        /\ Limit = 2 /\ RetainedCount(i) = Limit
        /\ LET before == IF UsesRedis THEN req[i].before
                         ELSE Range(req[i].before)
           IN  /\ req[i].t_call - Secs(Period) \in before
               /\ req[i].t_call - Secs(Period) \notin Retained(i)
C25_RedisWitness == UsesRedis /\ C25_Witness
C25_MemoryWitness == ~UsesRedis /\ C25_Witness

\* ======================================================================
\* The in-memory limiter under an endless stream of check calls.  Calls
\* arrive at three seconds of every minute: the last one, the first one
\* (when _check_memory runs the cleanup) and the second one.  The clock and
\* the stored timestamps are kept relative to the current minute: when the
\* clock passes a whole minute after StartTime, one minute is taken off the
\* clock and off every timestamp, and timestamps that fall before
\* StartTime - one minute, expired for good, stay there.
\* ======================================================================
Minute == Secs(CLEAN_EVERY)
CallPhases == {0, Secs(1), Minute - Secs(1)}
EvictFloor == StartTime - Minute
Rebased(store) ==
    [i \in 1..Len(store) |->
        [key |-> store[i].key,
         ts  |-> [k \in 1..Len(store[i].ts) |->
                     Max(store[i].ts[k] - Minute, EvictFloor)]]]

\* time.time() moves to a later second at which a call may arrive, at most
\* one minute ahead.
ElapseToCall ==
    /\ \E t \in (now + 1)..(now + Minute) :
           /\ (t % Minute) \in CallPhases
           /\ IF t >= StartTime + Minute
              THEN now' = t - Minute /\ memory_store' = Rebased(memory_store)
              ELSE now' = t /\ UNCHANGED memory_store
    /\ UNCHANGED <<settings, redis_store, service_health, probes, req,
                   inbound, outbound>>

\* RateLimiter.check is called for one of the clients; req holds the last
\* call only.
CheckCall(hosts) ==
    /\ ~UsesRedis
    /\ \E h \in hosts :
           LET r   == NewRequest(Empty, h, PingPath)
               res == _check_memory(memory_store, r.client_id, Limit, Period,
                                    now)
           IN  /\ memory_store' = res.store
               /\ req' = << [r EXCEPT !.t_call = now,
                                      !.checked = ~res.raised,
                                      !.allowed = res.allowed /\ ~res.raised,
                                      !.remaining = res.remaining,
                                      !.reset_time = res.reset_time,
                                      !.exc = IF res.raised THEN "ValueError"
                                              ELSE None] >>
    /\ UNCHANGED <<settings, now, redis_store, service_health, probes,
                   inbound, outbound>>

OtherIPv4 == <<"10.0.0.2">>
EvictHosts == {IPv4, OtherIPv4}

InitEvict ==
    /\ InitState
    /\ \E l \in Limits :
           settings = MakeSettings(TRUE, None, l, 1, DefaultRoutes)

NextEvict == ElapseToCall \/ CheckCall(EvictHosts)

\* Time passes, and check calls keep arriving.
SpecEvict ==
    /\ InitEvict /\ [][NextEvict]_vars
    /\ WF_vars(ElapseToCall) /\ WF_vars(CheckCall(EvictHosts))

\* C26: in-memory backend: a client key whose window has emptied (all its
\* timestamps older than now - period) is eventually removed from the
\* memory store as long as check calls keep arriving, whatever the times at
\* which they arrive, so that the keys held stay bounded by the number of
\* clients active within one period.
Held(h) == HasKey(memory_store, MemoryKey(h, Period))
Emptied(h) ==
    /\ Held(h)
    /\ \A x \in Range(Get(memory_store, MemoryKey(h, Period))) :
           x <= now - Secs(Period)
\* An emptied key is eventually gone, or in use again by its client.
C26_EmptiedKeyEventuallyRemoved ==
    \A h \in EvictHosts : Emptied(h) ~> ~Emptied(h)

\* The keys held are those of clients with a timestamp inside the period.
C26_KeysOfActiveClients ==
    \A h \in EvictHosts : Held(h) => ~Emptied(h)

\* What holds: when calls arrive again and again in the first second of a
\* minute, every emptied key (of a client id without ':') is eventually
\* gone or in use again.
CleaningCall ==
    /\ req # <<>>
    /\ req[1].t_call = now
    /\ (now % Minute) < Secs(1)
C26_RemovedWhenCleaningRuns ==
    ([]<>CleaningCall) =>
        \A h \in EvictHosts : Emptied(h) ~> ~Emptied(h)

\* A key whose window has emptied and which is still held when another
\* client calls outside the first second of the minute.
C26_EmptiedKeyHeld ==
    /\ req # <<>> /\ req[1].t_call = now
    /\ req[1].client_id = IPv4
    /\ (now % Minute) >= Secs(1)
    /\ Emptied(OtherIPv4)

\* ======================================================================
\* C27: in-memory backend: RateLimiter.check returns an (allowed,
\* remaining, reset) result and never raises, for every client id and every
\* call time, calls that run the periodic cleanup while the store holds keys
\* of client ids containing ':' included.
C27_MemoryCheckNeverRaises ==
    ~UsesRedis =>
        \A i \in Reqs :
            CheckRan(i) =>
                /\ req[i].checked
                /\ ~CheckRaised(i)
                /\ req[i].remaining # NoInt /\ req[i].reset_time # NoInt

\* What holds: a check raises only in a call that runs the cleanup while
\* the store holds a key with more than one ':'.
RanCleanup(i) == (req[i].t_call % Secs(CLEAN_EVERY)) < Secs(1)
ColonKeyStored(i) ==
    \/ Len(req[i].client_id) > 1
    \/ \E j \in 1..(i - 1) : Len(req[j].client_id) > 1
C27_RaisesOnlyInCleanupWithColonKey ==
    ~UsesRedis =>
        \A i \in Reqs :
            CheckRan(i) =>
                (CheckRaised(i) <=> RanCleanup(i) /\ ColonKeyStored(i))
\* A request of 10.0.0.1 answered 500 because the store held the key of ::1.
C27_RaisedByCleanup ==
    \E i \in Reqs :
        /\ ~UsesRedis /\ CheckRaised(i) /\ req[i].status = 500
        /\ req[i].exc = "ValueError"
        /\ req[i].client_id = IPv4

\* ======================================================================
\* C28: in every GET /services/health response the is_healthy, error and
\* last_checked reported for a route come from one and the same probe:
\* is_healthy=true is never reported together with a non-null error, also
\* when a background probe of the same prefix completes while the aggregate
\* check is still waiting for other routes.
HealthyWithError(i, k) ==
    /\ req[i].aggregate[k].is_healthy
    /\ req[i].aggregate[k].error # None
C28_AggregateFromOneProbe ==
    \A i \in Reqs :
        Aggregated(i) =>
            \A k \in 1..Len(req[i].aggregate) : ~HealthyWithError(i, k)

\* What holds: the aggregate of a request that was the only one to start
\* probes pairs is_healthy with the error of the same probe.
OnlyProber(i) ==
    \A j \in Reqs : j # i => ~req[j].spawned /\ ~HealthPath(j)
C28_ConsistentWhenAlone ==
    \A i \in Reqs :
        Aggregated(i) /\ OnlyProber(i) =>
            \A k \in 1..Len(req[i].aggregate) :
                /\ ~HealthyWithError(i, k)
                /\ req[i].aggregate[k].prefix \in DOMAIN service_health =>
                       /\ req[i].aggregate[k].is_healthy =
                              service_health[req[i].aggregate[k].prefix].is_healthy
                       /\ req[i].aggregate[k].last_checked =
                              service_health[req[i].aggregate[k].prefix].last_checked
\* An aggregate reports /reports healthy with the error of a background
\* probe that a proxied request spawned.
C28_MixedProbes ==
    \E i, j \in Reqs :
        /\ Aggregated(i) /\ req[j].spawned
        /\ \E k \in 1..Len(req[i].aggregate) :
               /\ HealthyWithError(i, k)
               /\ req[i].aggregate[k].prefix = req[j].prefix

\* ======================================================================
\* The router under an endless stream of proxied requests.  A request that
\* has been answered is forgotten, so that req holds the requests in
\* flight.  The clock is kept relative to the present: when time passes,
\* the elapsed time is taken off every last_checked instead of being added
\* to the clock, and a last_checked more than one staleness interval in the
\* past, stale for good, stays there.
\* ======================================================================
MaxRecoverReq == 2      \* proxied requests in flight at a time
StaleFloor == StartTime - Secs(STALE_AFTER) - 1
Aged(health, d) ==
    [p \in DOMAIN health |->
        [health[p] EXCEPT !.last_checked = Max(@ - d, StaleFloor)]]

\* time.time() moves by the staleness interval, or by a tick more.
ElapseStale ==
    /\ \E d \in ElapseSteps : service_health' = Aged(service_health, d)
    /\ UNCHANGED <<settings, now, memory_store, redis_store, probes, req,
                   inbound, outbound>>

\* The responses have left the gateway.
Forget ==
    /\ req # <<>>
    /\ \A i \in 1..Len(req) : req[i].pc = "done"
    /\ req' = <<>>
    /\ UNCHANGED <<settings, now, memory_store, redis_store, service_health,
                   probes, inbound, outbound>>

ArriveRecover == Receive({Empty}, {IPv4}, StalePaths, MaxRecoverReq, FALSE)
RelayRecover == BackendResponds({200})

InitRecover ==
    /\ InitState
    /\ settings = MakeSettings(FALSE, None, 1, 1, DefaultRoutes)

NextRecover ==
    \/ ElapseStale
    \/ ArriveRecover
    \/ ProxyRequest
    \/ RelayRecover
    \/ Forget
    \/ ProbeDone

\* Time passes, proxied requests keep arriving and are handled, and every
\* spawned probe completes (its GET answers or times out).
SpecRecover ==
    /\ InitRecover /\ [][NextRecover]_vars
    /\ WF_vars(ElapseStale) /\ WF_vars(ArriveRecover) /\ WF_vars(ProxyRequest)
    /\ WF_vars(RelayRecover) /\ WF_vars(Forget) /\ WF_vars(ProbeDone)

\* C29: health recovery: if from some point on a backend's health endpoint
\* always answers 200, proxied requests for its prefix keep arriving and
\* every spawned probe completes, the cached status of the prefix eventually
\* becomes healthy and stays healthy; if the endpoint fails from some point
\* on, the cached status eventually becomes unhealthy (once it is more than
\* 60 seconds old and a request arrives) and stays so.
ReportsPrefix == <<"/", "reports">>
CachedHealthy ==
    /\ ReportsPrefix \in DOMAIN service_health
    /\ service_health[ReportsPrefix].is_healthy
CachedUnhealthy ==
    /\ ReportsPrefix \in DOMAIN service_health
    /\ ~service_health[ReportsPrefix].is_healthy
\* A step that completes a probe stores the outcome of its GET: what the
\* endpoint answered is read off the entry the step stores.
Completes == probes' # probes /\ probes' \subseteq probes
EndpointAnswers200 ==
    Completes => /\ ReportsPrefix \in DOMAIN service_health'
                 /\ service_health'[ReportsPrefix].is_healthy
EndpointFails ==
    Completes => /\ ReportsPrefix \in DOMAIN service_health'
                 /\ ~service_health'[ReportsPrefix].is_healthy
C29_HealthRecovery ==
    /\ <>[][EndpointAnswers200]_vars => <>[]CachedHealthy
    /\ <>[][EndpointFails]_vars => <>[]CachedUnhealthy

\* The probe spawned by a request in flight has completed and left the
\* status healthy and fresh, with no error text, while an earlier request
\* is still in flight.
C29_Witness ==
    \E i \in Reqs :
        /\ i > 1 /\ req[i].spawned /\ probes = {}
        /\ CachedHealthy
        /\ service_health[ReportsPrefix].last_checked = now
        /\ service_health[ReportsPrefix].error = None

\* ======================================================================
\* C30: the cached health status never gates forwarding: a proxied request
\* that resolves to a route with a backend URL is always forwarded to that
\* backend, also when the cached status of the route is unhealthy, and the
\* gateway never answers a request with an error status because of a
\* cached unhealthy status.
RoutedWithUrl(i) ==
    /\ Matching(Routes, req[i].path) # {}
    /\ Routes[FirstMatch(Matching(Routes, req[i].path))].url # Empty
LeavesRouter(i) ==
    /\ i \in Reqs
    /\ req[i].pc = "router"
    /\ req'[i].pc # "router"
C30_ForwardStep ==
    \A i \in Reqs :
        LeavesRouter(i) /\ RoutedWithUrl(i) =>
            /\ req'[i].pc = "backend"
            /\ req'[i].status = 0
            /\ req'[i].target_url =
                   Routes[FirstMatch(Matching(Routes, req[i].path))].url
                       \o <<"/">> \o req[i].path
\* Every answered request that resolved to a route with a URL was forwarded
\* and carries the backend's answer.
C30_AnsweredByBackend ==
    \A i \in Reqs :
        req[i].pc = "done" /\ RoutedWithUrl(i) =>
            /\ req[i].forwarded
            /\ req[i].origin = "backend"
            /\ req[i].status = 200
C30_HealthNeverGates == []C30_AnsweredByBackend /\ [][C30_ForwardStep]_vars

\* A request was forwarded and answered by the backend while the cached
\* status of its route is unhealthy and the probe it spawned is pending.
C30_Witness ==
    \E i \in Reqs :
        /\ req[i].pc = "done" /\ req[i].forwarded /\ req[i].status = 200
        /\ Probe(i, req[i].prefix, "task") \in probes
        /\ UnhealthyNow(req[i].prefix)
        /\ service_health[req[i].prefix].last_checked < now

====
